---- MODULE Spec2Model ----
(***************************************************************************)
(* Model of the two templates of bids_application_templates:               *)
(*   - templates/report/html_report_template.py : the report assembler     *)
(*     (generate_html_report and its helpers);                             *)
(*   - templates/cli/cli_template.py : the pipeline command line           *)
(*     (create_parser, parse_derivatives_arg, main).                       *)
(*                                                                         *)
(* A Python string built by interpolation is modelled as the sequence of   *)
(* its pieces (template literals and interpolated values), in order, with  *)
(* runs of white space in the literals collapsed to one blank.  The empty  *)
(* string is the empty sequence.  Optional[T] is a sequence of length 0    *)
(* (None) or 1 (the value).                                                *)
(***************************************************************************)
EXTENDS Integers, Sequences, FiniteSets, TLC

\* ------------------------------------------------------------------------
\* Bounds of the model
\* ------------------------------------------------------------------------
MaxRequestSize == 4
MaxArgv == 7
MaxDerivatives == 3
MaxOptions == 2

\* ------------------------------------------------------------------------
\* Python values
\* ------------------------------------------------------------------------
None == <<>>
Some(x) == <<x>>
IsNone(o) == Len(o) = 0
Val(o) == o[1]

\* A metadata value (Dict[str, Any]): its Python type and its str() text.
StrVal(s) == [kind |-> "str", text |-> s]
IntVal(s) == [kind |-> "int", text |-> s]
BoolVal(s) == [kind |-> "bool", text |-> s]

\* bool(value) of a metadata value.
Truthy(v) ==
  /\ ~(v.kind = "str" /\ v.text = "")
  /\ ~(v.kind = "int" /\ v.text = "0")
  /\ ~(v.kind = "bool" /\ v.text = "False")

\* bool(s) of an Optional[str].
TruthyStr(o) == ~IsNone(o) /\ Val(o) # ""

\* An insertion-ordered dict: a sequence of entries with distinct keys.
DictKeys(d) == {d[i].key : i \in DOMAIN d}
DictGet(d, k) == (CHOOSE i \in DOMAIN d : d[i].key = k)
DictVal(d, k) == d[DictGet(d, k)].value

\* Variant: the pair is appended even when the key is present.
DictSetAppends(d, k, v) == Append(d, [key |-> k, value |-> v])

\* d[k] = v on an insertion-ordered dict.
DictSet(d, k, v) ==
  IF k \in DictKeys(d)
  THEN [d EXCEPT ![DictGet(d, k)] = [key |-> k, value |-> v]]
  ELSE Append(d, [key |-> k, value |-> v])

RECURSIVE Concat(_)
Concat(ss) == IF ss = <<>> THEN <<>> ELSE Head(ss) \o Concat(Tail(ss))

Range(s) == {s[i] : i \in DOMAIN s}

\* ------------------------------------------------------------------------
\* html_report_template.py : templates
\* ------------------------------------------------------------------------
CssRefs ==
  << "font_family",
     "text_color",
     "bg_color",
     "header_bg_start",
     "header_bg_end",
     "nav_bg",
     "nav_link_color",
     "accent_color",
     "section_bg",
     "heading_color",
     "accent_color",
     "heading_color",
     "card_bg",
     "border_color",
     "accent_color",
     "muted_color",
     "muted_color",
     "chart_bg",
     "border_color",
     "table_header_bg",
     "border_color",
     "table_hover_bg",
     "tag_bg",
     "tag_color",
     "footer_bg",
     "footer_text",
     "border_color",
     "accent_color" >>

CssLiterals ==
  << "* { margin: 0; padding: 0; box-sizing: border-box; } body { font-family:",
     "; line-height: 1.6; color:",
     "; background-color:",
     "; } .report-container { max-width: 1200px; margin: 0 auto; padding: 20px; } header { background: linear-gradient(135deg,",
     ",",
     "); color: white; padding: 40px 20px; border-radius: 8px; margin-bottom: 30px; box-shadow: 0 2px 10px rgba(0, 0, 0, 0.1); } header h1 { font-size: 2.5em; margin-bottom: 10px; } header .subtitle { font-size: 1.1em; opacity: 0.95; } .metadata { display: grid; grid-template-columns: repeat(auto-fit, minmax(200px, 1fr)); gap: 15px; margin-top: 20px; font-size: 0.9em; } .metadata-item { background: rgba(0, 0, 0, 0.1); padding: 10px; border-radius: 4px; } .metadata-label { font-weight: bold; opacity: 0.9; } nav { background:",
     "; padding: 0; margin-bottom: 30px; border-radius: 4px; box-shadow: 0 1px 3px rgba(0, 0, 0, 0.1); position: sticky; top: 0; z-index: 100; } nav ul { list-style: none; display: flex; flex-wrap: wrap; } nav li { flex: 1; min-width: 120px; } nav a { display: block; padding: 15px 20px; color:",
     "; text-decoration: none; border-bottom: 3px solid transparent; transition: all 0.3s ease; } nav a:hover { border-bottom-color:",
     "; background: rgba(0, 0, 0, 0.05); } .section { margin-bottom: 40px; padding: 20px; background:",
     "; border-radius: 8px; box-shadow: 0 1px 3px rgba(0, 0, 0, 0.1); } .section h2 { color:",
     "; font-size: 1.8em; margin-bottom: 20px; border-bottom: 2px solid",
     "; padding-bottom: 10px; } .section h3 { color:",
     "; font-size: 1.3em; margin-top: 20px; margin-bottom: 10px; } .metrics-grid { display: grid; grid-template-columns: repeat(auto-fit, minmax(250px, 1fr)); gap: 20px; margin: 20px 0; } .metric-card { background:",
     "; border: 1px solid",
     "; border-radius: 8px; padding: 20px; text-align: center; transition: transform 0.2s ease; } .metric-card:hover { transform: translateY(-5px); box-shadow: 0 5px 15px rgba(0, 0, 0, 0.15); } .metric-value { font-size: 2.2em; font-weight: bold; color:",
     "; margin: 10px 0; } .metric-label { font-size: 0.95em; color:",
     "; text-transform: uppercase; letter-spacing: 1px; } .metric-unit { font-size: 0.8em; color:",
     "; } .visualization { background:",
     "; border: 1px solid",
     "; border-radius: 6px; padding: 20px; margin: 20px 0; text-align: center; } .visualization img { max-width: 100%; height: auto; border-radius: 4px; } table { width: 100%; border-collapse: collapse; margin: 20px 0; } thead { background:",
     "; color: white; } th { padding: 12px; text-align: left; font-weight: 600; } td { padding: 12px; border-bottom: 1px solid",
     "; } tbody tr:hover { background:",
     "; } .status-badge { display: inline-block; padding: 5px 12px; border-radius: 20px; font-size: 0.85em; font-weight: bold; } .status-success { background: #d4edda; color: #155724; } .status-warning { background: #fff3cd; color: #856404; } .status-error { background: #f8d7da; color: #721c24; } .status-info { background: #d1ecf1; color: #0c5460; } .tag { display: inline-block; background:",
     "; color:",
     "; padding: 5px 10px; border-radius: 4px; margin: 5px 5px 5px 0; font-size: 0.85em; } footer { background:",
     "; color:",
     "; padding: 30px 20px; text-align: center; border-top: 1px solid",
     "; margin-top: 40px; border-radius: 0 0 8px 8px; } footer p { margin: 5px 0; font-size: 0.9em; } .footer-links { margin-top: 15px; } .footer-links a { color:",
     "; text-decoration: none; margin: 0 10px; } .footer-links a:hover { text-decoration: underline; } @media (max-width: 768px) { header h1 { font-size: 1.8em; } .metrics-grid { grid-template-columns: 1fr; } nav ul { flex-direction: column; } nav li { min-width: 100%; } .metadata { grid-template-columns: 1fr; } }" >>
\* DEFAULT_CSS.format(**colors): the literals with the palette values between.
FormatCss(colors) ==
  Concat([i \in 1..Len(CssRefs) |-> <<CssLiterals[i], colors[CssRefs[i]]>>])
    \o <<CssLiterals[Len(CssLiterals)]>>

\* str.format raises KeyError when a referenced key is missing.
CssKeyError(colors) == \E i \in DOMAIN CssRefs : CssRefs[i] \notin DOMAIN colors

javascript_content ==
  "document.addEventListener('DOMContentLoaded', function() { console.log('Report loaded successfully'); // Add interactive features here });"

\* Variant: the navigation placeholder precedes the header placeholder.
HTML_TEMPLATE_nav_first(title_, author_, description_, css_content, header_html, navigation_html, main_html, footer_html, js) ==
  << "<!DOCTYPE html> <html lang=\"en\"> <head> <meta charset=\"UTF-8\"> <meta name=\"viewport\" content=\"width=device-width, initial-scale=1.0\"> <meta name=\"author\" content=\"",
     author_,
     "\"> <meta name=\"description\" content=\"",
     description_,
     "\"> <title>",
     title_,
     "</title> <style>" >>
  \o css_content
  \o << "</style> </head> <body> <div class=\"report-container\">" >>
  \o navigation_html
  \o header_html
  \o main_html
  \o footer_html
  \o << "</div> <script>", js, "</script> </body> </html>" >>

HTML_TEMPLATE(title_, author_, description_, css_content, header_html, navigation_html, main_html, footer_html, js) ==
  << "<!DOCTYPE html> <html lang=\"en\"> <head> <meta charset=\"UTF-8\"> <meta name=\"viewport\" content=\"width=device-width, initial-scale=1.0\"> <meta name=\"author\" content=\"",
     author_,
     "\"> <meta name=\"description\" content=\"",
     description_,
     "\"> <title>",
     title_,
     "</title> <style>" >>
  \o css_content
  \o << "</style> </head> <body> <div class=\"report-container\">" >>
  \o header_html
  \o navigation_html
  \o main_html
  \o footer_html
  \o << "</div> <script>", js, "</script> </body> </html>" >>

\* ------------------------------------------------------------------------
\* html_report_template.py : report generator functions
\* ------------------------------------------------------------------------
schemes ==
  [ light |->
      [ bg_color |-> "#ffffff", text_color |-> "#333333",
        header_bg_start |-> "#667eea", header_bg_end |-> "#764ba2",
        nav_bg |-> "#f8f9fa", nav_link_color |-> "#333333",
        accent_color |-> "#667eea", section_bg |-> "#f9f9f9",
        card_bg |-> "#ffffff", heading_color |-> "#2d3748",
        muted_color |-> "#718096", border_color |-> "#e2e8f0",
        chart_bg |-> "#ffffff", table_header_bg |-> "#667eea",
        table_hover_bg |-> "#f7fafc", tag_bg |-> "#edf2f7",
        tag_color |-> "#2d3748", footer_bg |-> "#2d3748",
        footer_text |-> "#ffffff",
        font_family |-> "'Segoe UI', Tahoma, Geneva, Verdana, sans-serif" ],
    dark |->
      [ bg_color |-> "#1a202c", text_color |-> "#e2e8f0",
        header_bg_start |-> "#5a67d8", header_bg_end |-> "#6b46c1",
        nav_bg |-> "#2d3748", nav_link_color |-> "#e2e8f0",
        accent_color |-> "#63b3ed", section_bg |-> "#2d3748",
        card_bg |-> "#374151", heading_color |-> "#e2e8f0",
        muted_color |-> "#a0aec0", border_color |-> "#4a5568",
        chart_bg |-> "#2d3748", table_header_bg |-> "#5a67d8",
        table_hover_bg |-> "#374151", tag_bg |-> "#4a5568",
        tag_color |-> "#e2e8f0", footer_bg |-> "#1a202c",
        footer_text |-> "#a0aec0",
        font_family |-> "'Segoe UI', Tahoma, Geneva, Verdana, sans-serif" ],
    minimal |->
      [ bg_color |-> "#fafafa", text_color |-> "#444444",
        header_bg_start |-> "#000000", header_bg_end |-> "#333333",
        nav_bg |-> "#ffffff", nav_link_color |-> "#444444",
        accent_color |-> "#000000", section_bg |-> "#ffffff",
        card_bg |-> "#ffffff", heading_color |-> "#000000",
        muted_color |-> "#999999", border_color |-> "#dddddd",
        chart_bg |-> "#ffffff", table_header_bg |-> "#333333",
        table_hover_bg |-> "#f5f5f5", tag_bg |-> "#f0f0f0",
        tag_color |-> "#333333", footer_bg |-> "#333333",
        footer_text |-> "#ffffff",
        font_family |-> "'Georgia', serif" ] ]

\* Variant: the theme name is ignored.
build_color_scheme_ignores_theme(theme_) == schemes["light"]

\* Variant: schemes.get(theme, {}).
build_color_scheme_no_default(theme_) ==
  IF theme_ \in DOMAIN schemes THEN schemes[theme_] ELSE <<>>

\* Variant: an unknown theme falls back to the dark palette.
build_color_scheme_dark_default(theme_) ==
  IF theme_ \in DOMAIN schemes THEN schemes[theme_] ELSE schemes["dark"]

\* schemes.get(theme, schemes["light"]); the dict is built anew by each call.
build_color_scheme(theme_) ==
  IF theme_ \in DOMAIN schemes THEN schemes[theme_] ELSE schemes["light"]

\* Variant: the built-in value wins (setdefault instead of update).
DictUpdateKeepsBuiltin(colors, overrides) ==
  [k \in (DOMAIN colors) \cup (DOMAIN overrides) |->
     IF k \in DOMAIN colors THEN colors[k] ELSE overrides[k]]

\* colors.update(custom_colors)
DictUpdate(colors, overrides) ==
  [k \in (DOMAIN colors) \cup (DOMAIN overrides) |->
     IF k \in DOMAIN overrides THEN overrides[k] ELSE colors[k]]

\* The clock: datetime.now() as the pair of texts the templates take from it.
Clock ==
  << [year |-> "2024", stamp |-> "2024-01-15 09:30:00"],
     [year |-> "2026", stamp |-> "2026-11-03 12:00:00"] >>

\* datetime.now().strftime('%Y-%m-%d %H:%M:%S')
strftime(now_) == now_.stamp

\* Section identifiers a caller passes: the five known ones, one in mixed
\* case and one the generator does not know.
SectionNames ==
  {"summary", "metrics", "visualizations", "quality", "metadata",
   "Summary", "bogus"}

KnownSections == {"summary", "metrics", "visualizations", "quality", "metadata"}

\* str.lower() on the section identifiers.
lower(s) == IF s = "Summary" THEN "summary" ELSE s

\* str.title() on the section identifiers.
TitleCase(s) ==
  CASE s = "summary" -> "Summary"
    [] s = "metrics" -> "Metrics"
    [] s = "visualizations" -> "Visualizations"
    [] s = "quality" -> "Quality"
    [] s = "metadata" -> "Metadata"
    [] s = "Summary" -> "Summary"
    [] s = "bogus" -> "Bogus"

MetadataItem(entry) ==
  << "<div class=\"metadata-item\"><span class=\"metadata-label\">",
     entry.key, ":</span> ", entry.value.text, "</div>" >>

generate_header(title_, description_, metadata_) ==
  LET items == Concat([i \in DOMAIN metadata_ |->
                         IF Truthy(metadata_[i].value)
                         THEN MetadataItem(metadata_[i]) ELSE <<>>])
      metadata_html == IF metadata_ # <<>> /\ items # <<>>
                       THEN <<"<div class=\"metadata\">">> \o items \o <<"</div>">>
                       ELSE <<>>
      desc_html == IF TruthyStr(description_)
                   THEN <<"<p class=\"subtitle\">", Val(description_), "</p>">>
                   ELSE <<>>
  IN <<"<header> <h1>", title_, "</h1>">> \o desc_html \o metadata_html
       \o <<"</header>">>

NavItem(section) ==
  <<"<li><a href=\"#", section, "\">", TitleCase(section), "</a></li>">>

\* Variant: only the identifiers that have a fragment get a link.
generate_navigation_known_only(sections_) ==
  <<"<nav> <ul>">>
    \o Concat([i \in DOMAIN sections_ |->
                 IF lower(sections_[i]) \in KnownSections
                 THEN NavItem(sections_[i]) ELSE <<>>])
    \o <<"</ul> </nav>">>

generate_navigation(sections_) ==
  <<"<nav> <ul>">> \o Concat([i \in DOMAIN sections_ |-> NavItem(sections_[i])])
    \o <<"</ul> </nav>">>

SummaryFragment(section_id, now_) ==
  << "<section id=\"",
     section_id,
     "\" class=\"section\"> <h2>Summary</h2> <p>This section provides an overview of the analysis results and key findings.</p> <div class=\"metrics-grid\"> <div class=\"metric-card\"> <div class=\"metric-label\">Status</div> <div class=\"metric-value\"><span class=\"status-badge status-success\">Complete</span></div> </div> <div class=\"metric-card\"> <div class=\"metric-label\">Processing Time</div> <div class=\"metric-value\">2<span class=\"metric-unit\">h 15m</span></div> </div> <div class=\"metric-card\"> <div class=\"metric-label\">Data Points</div> <div class=\"metric-value\">10,240</div> </div> </div> </section>" >>

MetricsFragment(section_id, now_) ==
  << "<section id=\"",
     section_id,
     "\" class=\"section\"> <h2>Analysis Metrics</h2> <p>Quantitative measurements and key performance indicators.</p> <div class=\"metrics-grid\"> <div class=\"metric-card\"> <div class=\"metric-label\">Metric One</div> <div class=\"metric-value\">0.92</div> </div> <div class=\"metric-card\"> <div class=\"metric-label\">Metric Two</div> <div class=\"metric-value\">87.5<span class=\"metric-unit\">%</span></div> </div> <div class=\"metric-card\"> <div class=\"metric-label\">Metric Three</div> <div class=\"metric-value\">156<span class=\"metric-unit\">ms</span></div> </div> <div class=\"metric-card\"> <div class=\"metric-label\">Metric Four</div> <div class=\"metric-value\">p &lt; 0.001</div> </div> </div> </section>" >>

VisualizationsFragment(section_id, now_) ==
  << "<section id=\"",
     section_id,
     "\" class=\"section\"> <h2>Visualizations</h2> <p>Graphical representations of analysis results and trends.</p> <div class=\"visualization\"> <p style=\"color: #999; font-size: 1.2em; padding: 40px;\"> [Chart/Graph/Plot Placeholder] </p> </div> <div class=\"visualization\"> <p style=\"color: #999; font-size: 1.2em; padding: 40px;\"> [Visualization Placeholder] </p> </div> </section>" >>

QualityFragment(section_id, now_) ==
  << "<section id=\"",
     section_id,
     "\" class=\"section\"> <h2>Quality Assessment</h2> <p>Data quality evaluation and validation results.</p> <table> <thead> <tr> <th>Check</th> <th>Result</th> <th>Details</th> </tr> </thead> <tbody> <tr> <td>Data Completeness</td> <td><span class=\"status-badge status-success\">Pass</span></td> <td>100% of expected data present</td> </tr> <tr> <td>Value Range Validation</td> <td><span class=\"status-badge status-success\">Pass</span></td> <td>All values within expected ranges</td> </tr> <tr> <td>Format Compliance</td> <td><span class=\"status-badge status-warning\">Warning</span></td> <td>Minor formatting inconsistencies detected</td> </tr> </tbody> </table> </section>" >>

MetadataFragment(section_id, now_) ==
  << "<section id=\"",
     section_id,
     "\" class=\"section\"> <h2>Metadata</h2> <p>Information about the analysis execution and configuration.</p> <table> <thead> <tr> <th>Parameter</th> <th>Value</th> </tr> </thead> <tbody> <tr> <td>Generated Date</td> <td>",
     strftime(now_),
     "</td> </tr> <tr> <td>Generator Version</td> <td>1.0.0</td> </tr> <tr> <td>Input Source</td> <td>Analysis output directory</td> </tr> <tr> <td>Configuration</td> <td>Default template</td> </tr> </tbody> </table> </section>" >>

\* Variant: an unknown identifier gets a generic fragment.
generate_section_placeholder_generic(section_name, now_) ==
  LET section_id == lower(section_name)
  IN CASE section_id = "summary" -> SummaryFragment(section_id, now_)
       [] section_id = "metrics" -> MetricsFragment(section_id, now_)
       [] section_id = "visualizations" -> VisualizationsFragment(section_id, now_)
       [] section_id = "quality" -> QualityFragment(section_id, now_)
       [] section_id = "metadata" -> MetadataFragment(section_id, now_)
       [] OTHER -> <<"<section id=\"", section_id, "\" class=\"section\"> </section>">>

generate_section_placeholder(section_name, now_) ==
  LET section_id == lower(section_name)
  IN CASE section_id = "summary" -> SummaryFragment(section_id, now_)
       [] section_id = "metrics" -> MetricsFragment(section_id, now_)
       [] section_id = "visualizations" -> VisualizationsFragment(section_id, now_)
       [] section_id = "quality" -> QualityFragment(section_id, now_)
       [] section_id = "metadata" -> MetadataFragment(section_id, now_)
       [] OTHER -> <<>>

\* Variant: the tag goes through html.escape before it is interpolated.
TagChip_escaped(tag) ==
  << "<span class=\"tag\">",
     CASE tag = "<b>Q&A</b>" -> "&lt;b&gt;Q&amp;A&lt;/b&gt;"
       [] tag = "say \"hi\" & 'bye'" -> "say &quot;hi&quot; &amp; &#x27;bye&#x27;"
       [] OTHER -> tag,
     "</span>" >>

\* f'<span class="tag">{tag}</span>'
TagChip(tag) == <<"<span class=\"tag\">", tag, "</span>">>

\* Variant: the tag block is emitted whether or not there are tags.
generate_footer_always_tag_block(tags_, now_) ==
  LET tg == IF IsNone(tags_) THEN <<>> ELSE Val(tags_)
  IN <<"<footer>", "<p> <strong>Tags:</strong><br>">>
       \o Concat([i \in DOMAIN tg |-> TagChip(tg[i])])
       \o << "</p>", "<p>&copy; ", now_.year,
             " Analysis Report. All rights reserved.</p> <div class=\"footer-links\"> <a href=\"#\">Documentation</a> <a href=\"#\">Report Issue</a> <a href=\"#\">Contact Support</a> </div> </footer>" >>

generate_footer(tags_, now_) ==
  LET tags_html ==
        IF ~IsNone(tags_) /\ Val(tags_) # <<>>
        THEN <<"<p> <strong>Tags:</strong><br>">>
               \o Concat([i \in DOMAIN Val(tags_) |-> TagChip(Val(tags_)[i])])
               \o <<"</p>">>
        ELSE <<>>
  IN <<"<footer>">> \o tags_html
       \o << "<p>&copy; ", now_.year,
             " Analysis Report. All rights reserved.</p> <div class=\"footer-links\"> <a href=\"#\">Documentation</a> <a href=\"#\">Report Issue</a> <a href=\"#\">Contact Support</a> </div> </footer>" >>

\* Variant: a shorter default list.
DefaultSectionsShort == <<"summary", "metrics">>

DefaultSections == <<"summary", "metrics", "visualizations">>

\* Variant: sections = sections or [...], an empty list gets the defaults.
SectionsOrDefaultFalsy(sections_) ==
  IF IsNone(sections_) \/ Val(sections_) = <<>> THEN DefaultSections
  ELSE Val(sections_)

\* if sections is None: sections = ["summary", "metrics", "visualizations"]
SectionsOrDefault(sections_) ==
  IF IsNone(sections_) THEN DefaultSections ELSE Val(sections_)

\* Variant: each distinct identifier is rendered once.
main_content_html_unique(secs, now_) ==
  Concat([i \in DOMAIN secs |->
            IF \E j \in 1..(i - 1) : secs[j] = secs[i] THEN <<>>
            ELSE generate_section_placeholder(secs[i], now_)])

\* "".join([generate_section_placeholder(section) for section in sections])
main_content_html(secs, now_) ==
  Concat([i \in DOMAIN secs |-> generate_section_placeholder(secs[i], now_)])

\* generate_html_report: the returned document, whether the call raised, and
\* the contents of the caller's metadata object when the call ends.
generate_html_report(title_, description_, sections_, theme_, author_, tags_, metadata_, custom_colors_, now_) ==
  LET secs == SectionsOrDefault(sections_)
      meta0 == IF IsNone(metadata_) THEN <<>> ELSE Val(metadata_)
      meta == IF TruthyStr(author_)
              THEN DictSet(meta0, "Author", StrVal(Val(author_)))
              ELSE meta0
      colors0 == build_color_scheme(theme_)
      colors == IF ~IsNone(custom_colors_) /\ DOMAIN Val(custom_colors_) # {}
                THEN DictUpdate(colors0, Val(custom_colors_))
                ELSE colors0
      raised == CssKeyError(colors)
      header_html == generate_header(title_, description_, meta)
      navigation_html == generate_navigation(secs)
      footer_html == generate_footer(tags_, now_)
  IN [ raised |-> raised,
       html |-> IF raised THEN <<>>
                ELSE HTML_TEMPLATE(
                       title_,
                       IF TruthyStr(author_) THEN Val(author_) ELSE "Analysis Pipeline",
                       IF TruthyStr(description_) THEN Val(description_)
                       ELSE "Generated analysis report",
                       FormatCss(colors), header_html, navigation_html,
                       main_content_html(secs, now_), footer_html,
                       javascript_content),
       metadata |-> IF IsNone(metadata_) THEN None ELSE Some(meta) ]

\* ------------------------------------------------------------------------
\* cli_template.py : the pipeline command line
\* ------------------------------------------------------------------------
\* Command-line words of the model.  DashWords are the words that begin
\* with "-"; every other word is an argument word.
CliWords == {"-p", "01", "02", "participant"}
DashWords ==
  {"-h", "--help", "--version", "-v", "--verbose", "-c", "--config", "-d",
   "--derivatives", "-p", "--participant-label", "-t", "--task", "-s",
   "--session", "-r", "--run", "--space", "--label", "--strategy",
   "--low-freq", "--high-freq", "--overwrite", "--threshold", "--extend",
   "--min-segment-length", "--drop-initial", "--bogus"}

\* pathlib.Path(word): none of the words of the model has a repeated or a
\* trailing separator, so the normalised text is the word.
PathOf(word) == [posix |-> word]

\* int(word): defined on the words that are decimal integers.
IntWords == {"01", "02", "4", "5"}
IntOf(word) ==
  CASE word = "01" -> 1 [] word = "02" -> 2 [] word = "4" -> 4 [] word = "5" -> 5

\* float(word): defined on the numeric words; a float is kept as its repr().
FloatWords == IntWords \cup {"0.01", "0.1"}
FloatOf(word) ==
  [float |-> CASE word = "01" -> "1.0" [] word = "02" -> "2.0"
               [] word = "4" -> "4.0" [] word = "5" -> "5.0"
               [] OTHER -> word]

OptSpec(dest_, action_, nargs_, type_, choices_) ==
  [dest |-> dest_, action |-> action_, nargs |-> nargs_, type |-> type_,
   choices |-> choices_]

\* Variant: -d/--derivatives declared with nargs='+' and no append action.
OptionalsDerivativesStored ==
  LET help_ == OptSpec("help", "help", "0", "str", {})
      verbose == OptSpec("verbose", "store_true", "0", "str", {})
      config == OptSpec("config", "store", "1", "path", {})
      derivatives == OptSpec("derivatives", "store", "+", "str", {})
      participant == OptSpec("participant_label", "store", "+", "str", {})
      task == OptSpec("task", "store", "1", "str", {})
      session == OptSpec("session", "store", "1", "str", {})
      run == OptSpec("run", "store", "1", "int", {})
  IN [w \in DashWords \ {"--bogus"} |->
       CASE w \in {"-h", "--help"} -> help_
         [] w = "--version" -> OptSpec("version", "version", "0", "str", {})
         [] w \in {"-v", "--verbose"} -> verbose
         [] w \in {"-c", "--config"} -> config
         [] w \in {"-d", "--derivatives"} -> derivatives
         [] w \in {"-p", "--participant-label"} -> participant
         [] w \in {"-t", "--task"} -> task
         [] w \in {"-s", "--session"} -> session
         [] w \in {"-r", "--run"} -> run
         [] w = "--space" -> OptSpec("space", "store", "1", "str", {})
         [] w = "--label" -> OptSpec("label", "store", "1", "str", {})
         [] w = "--strategy" ->
              OptSpec("strategy", "store", "1", "str",
                      {"minimal", "standard", "advanced", "custom"})
         [] w = "--low-freq" -> OptSpec("low_freq", "store", "1", "float", {})
         [] w = "--high-freq" -> OptSpec("high_freq", "store", "1", "float", {})
         [] w = "--overwrite" -> OptSpec("overwrite", "store_true", "0", "str", {})
         [] w = "--threshold" -> OptSpec("threshold", "store", "1", "float", {})
         [] w = "--extend" -> OptSpec("extend", "store", "1", "int", {})
         [] w = "--min-segment-length" ->
              OptSpec("min_segment_length", "store", "1", "int", {})
         [] w = "--drop-initial" -> OptSpec("drop_initial", "store", "1", "int", {})]

\* create_parser: the optional arguments, by option string.
Optionals ==
  LET help_ == OptSpec("help", "help", "0", "str", {})
      verbose == OptSpec("verbose", "store_true", "0", "str", {})
      config == OptSpec("config", "store", "1", "path", {})
      derivatives == OptSpec("derivatives", "append", "1", "str", {})
      participant == OptSpec("participant_label", "store", "+", "str", {})
      task == OptSpec("task", "store", "1", "str", {})
      session == OptSpec("session", "store", "1", "str", {})
      run == OptSpec("run", "store", "1", "int", {})
  IN [w \in DashWords \ {"--bogus"} |->
       CASE w \in {"-h", "--help"} -> help_
         [] w = "--version" -> OptSpec("version", "version", "0", "str", {})
         [] w \in {"-v", "--verbose"} -> verbose
         [] w \in {"-c", "--config"} -> config
         [] w \in {"-d", "--derivatives"} -> derivatives
         [] w \in {"-p", "--participant-label"} -> participant
         [] w \in {"-t", "--task"} -> task
         [] w \in {"-s", "--session"} -> session
         [] w \in {"-r", "--run"} -> run
         [] w = "--space" -> OptSpec("space", "store", "1", "str", {})
         [] w = "--label" -> OptSpec("label", "store", "1", "str", {})
         [] w = "--strategy" ->
              OptSpec("strategy", "store", "1", "str",
                      {"minimal", "standard", "advanced", "custom"})
         [] w = "--low-freq" -> OptSpec("low_freq", "store", "1", "float", {})
         [] w = "--high-freq" -> OptSpec("high_freq", "store", "1", "float", {})
         [] w = "--overwrite" -> OptSpec("overwrite", "store_true", "0", "str", {})
         [] w = "--threshold" -> OptSpec("threshold", "store", "1", "float", {})
         [] w = "--extend" -> OptSpec("extend", "store", "1", "int", {})
         [] w = "--min-segment-length" ->
              OptSpec("min_segment_length", "store", "1", "int", {})
         [] w = "--drop-initial" -> OptSpec("drop_initial", "store", "1", "int", {})]

\* Variant: analysis_level declared without choices.
PositionalsAnyLevel ==
  << OptSpec("input_dir", "store", "1", "path", {}),
     OptSpec("output_dir", "store", "1", "path", {}),
     OptSpec("analysis_level", "store", "1", "str", {}) >>

\* create_parser: the positional arguments, in order.
Positionals ==
  << OptSpec("input_dir", "store", "1", "path", {}),
     OptSpec("output_dir", "store", "1", "path", {}),
     OptSpec("analysis_level", "store", "1", "str", {"participant"}) >>

\* The namespace before any argument is seen: the defaults.
DefaultNamespace ==
  [ input_dir |-> None, output_dir |-> None, analysis_level |-> None,
    verbose |-> FALSE, config |-> None, derivatives |-> None,
    participant_label |-> None, task |-> None, session |-> None,
    run |-> None, space |-> None, label |-> None, strategy |-> None,
    low_freq |-> None, high_freq |-> None, overwrite |-> FALSE,
    threshold |-> None, extend |-> Some(0), min_segment_length |-> Some(0),
    drop_initial |-> Some(0) ]

\* argparse _get_value: the type conversion of one word; <<>> when it fails.
Convert(spec, word) ==
  CASE spec.type = "path" -> Some(PathOf(word))
    [] spec.type = "int" ->
         IF word \in IntWords THEN Some(IntOf(word)) ELSE None
    [] spec.type = "float" ->
         IF word \in FloatWords THEN Some(FloatOf(word)) ELSE None
    [] OTHER -> Some(word)

\* argparse _check_value
ChoiceOk(spec, word) == spec.choices = {} \/ word \in spec.choices

\* html_report_template.py create_parser: the option strings, and one the
\* parser does not know.
ReportDashWords ==
  {"-h", "--help", "--version", "-v", "--verbose", "-c", "--config", "--title",
   "--description", "--analysis-id", "--author", "--tags", "--sections",
   "--theme", "--color-scheme", "--font-family", "--logo", "--embed-assets",
   "--plot-format", "--dpi", "--include-thumbnails", "--export", "--overwrite",
   "--validate", "--bogus"}

IsDash(word) == word \in DashWords \cup ReportDashWords

\* Number of consecutive argument words of argv from index i on.
RECURSIVE LeadingArgs(_, _)
LeadingArgs(argv_, i) ==
  IF i > Len(argv_) \/ IsDash(argv_[i]) THEN 0 ELSE 1 + LeadingArgs(argv_, i + 1)

\* Index of the first option word at or after i, 0 when there is none.
RECURSIVE NextOption(_, _)
NextOption(argv_, i) ==
  IF i > Len(argv_) THEN 0
  ELSE IF IsDash(argv_[i]) THEN i ELSE NextOption(argv_, i + 1)

\* argparse take_action: convert and check the words, then apply the action.
TakeAction(st, spec, words) ==
  IF \E j \in DOMAIN words :
       IsNone(Convert(spec, words[j])) \/ ~ChoiceOk(spec, words[j])
  THEN [st EXCEPT !.status = "error"]
  ELSE
    LET values == [j \in DOMAIN words |-> Val(Convert(spec, words[j]))]
    IN CASE spec.action = "help" -> [st EXCEPT !.status = "help"]
         [] spec.action = "version" -> [st EXCEPT !.status = "version"]
         [] spec.action = "store_true" -> [st EXCEPT !.ns[spec.dest] = TRUE]
         [] spec.action = "append" ->
              [st EXCEPT !.ns[spec.dest] =
                 Some((IF IsNone(@) THEN <<>> ELSE Val(@)) \o values)]
         [] spec.action = "store" /\ spec.nargs = "+" ->
              [st EXCEPT !.ns[spec.dest] = Some(values)]
         [] OTHER -> [st EXCEPT !.ns[spec.dest] = Some(values[1])]

\* argparse consume_positionals: as many of the remaining positionals as
\* there are argument words in a row at index i.
RECURSIVE ConsumePositionals(_, _)
ConsumePositionals(argv_, st) ==
  IF st.status # "run" \/ st.pos = <<>> \/ LeadingArgs(argv_, st.i) = 0
  THEN st
  ELSE ConsumePositionals(argv_,
         [TakeAction(st, Head(st.pos), <<argv_[st.i]>>)
            EXCEPT !.i = st.i + 1, !.pos = Tail(st.pos)])

\* argparse consume_optional at an option word.
ConsumeOptional(argv_, st) ==
  LET word == argv_[st.i]
  IN IF word \notin DOMAIN st.opts
     THEN [st EXCEPT !.extras = Append(@, word), !.i = st.i + 1]
     ELSE
       LET spec == st.opts[word]
           avail == LeadingArgs(argv_, st.i + 1)
           count == CASE spec.nargs = "0" -> 0
                      [] spec.nargs = "1" -> 1
                      [] OTHER -> avail
       IN IF (spec.nargs = "1" /\ avail < 1) \/ (spec.nargs = "+" /\ avail < 1)
          THEN [st EXCEPT !.status = "error"]
          ELSE [TakeAction(st, spec, SubSeq(argv_, st.i + 1, st.i + count))
                  EXCEPT !.i = st.i + 1 + count]

\* argparse _parse_known_args: the loop over the option words.
RECURSIVE ParseLoop(_, _)
ParseLoop(argv_, st) ==
  LET nxt == NextOption(argv_, st.i)
  IN IF st.status # "run" \/ nxt = 0 THEN st
     ELSE IF st.i # nxt
     THEN LET st2 == ConsumePositionals(argv_, st)
          IN IF st2.i > st.i THEN ParseLoop(argv_, st2)
             ELSE ParseLoop(argv_,
                    ConsumeOptional(argv_,
                      [st EXCEPT !.extras = @ \o SubSeq(argv_, st.i, nxt - 1),
                                 !.i = nxt]))
     ELSE ParseLoop(argv_, ConsumeOptional(argv_, st))

\* argparse parse_args from the initial state st0 of a parser: the outcome
\* ("ok", "error", "help", "version") and the namespace.
ParseFrom(argv_, st0) ==
  LET st1 == ParseLoop(argv_, st0)
      st2 == ConsumePositionals(argv_, st1)
      extras == st2.extras \o SubSeq(argv_, st2.i, Len(argv_))
  IN IF st2.status # "run" THEN [status |-> st2.status, ns |-> st2.ns]
     ELSE IF st2.pos # <<>> \/ extras # <<>>
          THEN [status |-> "error", ns |-> st2.ns]
          ELSE [status |-> "ok", ns |-> st2.ns]

\* parser.parse_args(argv) of the pipeline.
parse_args(argv_) ==
  ParseFrom(argv_, [i |-> 1, ns |-> DefaultNamespace, pos |-> Positionals,
                    opts |-> Optionals, extras |-> <<>>, status |-> "run"])

\* html_report_template.py create_parser: the optional arguments, by option
\* string.
ReportOptionals ==
  LET flag(d) == OptSpec(d, "store_true", "0", "str", {})
      text(d) == OptSpec(d, "store", "1", "str", {})
  IN [w \in ReportDashWords \ {"--bogus"} |->
       CASE w \in {"-h", "--help"} -> OptSpec("help", "help", "0", "str", {})
         [] w = "--version" -> OptSpec("version", "version", "0", "str", {})
         [] w \in {"-v", "--verbose"} -> flag("verbose")
         [] w \in {"-c", "--config"} -> OptSpec("config", "store", "1", "path", {})
         [] w = "--title" -> text("title")
         [] w = "--description" -> text("description")
         [] w = "--analysis-id" -> text("analysis_id")
         [] w = "--author" -> text("author")
         [] w = "--tags" -> OptSpec("tags", "store", "+", "str", {})
         [] w = "--sections" ->
              OptSpec("sections", "store", "+", "str",
                      {"summary", "metrics", "visualizations", "quality", "metadata"})
         [] w = "--theme" ->
              OptSpec("theme", "store", "1", "str",
                      {"light", "dark", "minimal", "custom"})
         [] w = "--color-scheme" -> text("color_scheme")
         [] w = "--font-family" -> text("font_family")
         [] w = "--logo" -> OptSpec("logo", "store", "1", "path", {})
         [] w = "--embed-assets" -> flag("embed_assets")
         [] w = "--plot-format" ->
              OptSpec("plot_format", "store", "1", "str", {"svg", "png", "interactive"})
         [] w = "--dpi" -> OptSpec("dpi", "store", "1", "int", {})
         [] w = "--include-thumbnails" -> flag("include_thumbnails")
         [] w = "--export" ->
              OptSpec("export", "store", "+", "str", {"html", "pdf", "markdown"})
         [] w = "--overwrite" -> flag("overwrite")
         [] w = "--validate" -> flag("validate")]

\* html_report_template.py create_parser: the positional arguments.
ReportPositionals ==
  << OptSpec("input_dir", "store", "1", "path", {}),
     OptSpec("output_file", "store", "1", "path", {}) >>

\* The report namespace before any argument is seen: the defaults.
ReportDefaultNamespace ==
  [ input_dir |-> None, output_file |-> None, verbose |-> FALSE,
    config |-> None, title |-> Some("Analysis Report"), description |-> None,
    analysis_id |-> None, author |-> None, tags |-> None, sections |-> None,
    theme |-> Some("light"), color_scheme |-> None, font_family |-> None,
    logo |-> None, embed_assets |-> FALSE, plot_format |-> Some("interactive"),
    dpi |-> Some(100), include_thumbnails |-> FALSE,
    export |-> Some(<<"html">>), overwrite |-> FALSE, validate |-> FALSE ]

\* parser.parse_args(argv) of the report generator.
report_parse_args(argv_) ==
  ParseFrom(argv_, [i |-> 1, ns |-> ReportDefaultNamespace,
                    pos |-> ReportPositionals, opts |-> ReportOptionals,
                    extras |-> <<>>, status |-> "run"])

\* Tokens given to -d/--derivatives: three with "=" and two without.
DerivativeTokens == {"a=/x", "b=/y", "a=/z=1", "bad", "worse"}

\* Words with "=" and their two sides around the first "=" (str.split("=", 1)).
EqWords == {"a=/x", "b=/y", "a=/z=1"}
SplitEq(word) ==
  CASE word = "a=/x" -> <<"a", "/x">>
    [] word = "b=/y" -> <<"b", "/y">>
    [] word = "a=/z=1" -> <<"a", "/z=1">>

\* The message of the ValueError raised for a token without "=".
ValueErrorMessage(word) ==
  << "Invalid derivatives argument: ", word,
     ". Expected format: name=path (e.g., preprocessed=/path/to/data)" >>

\* Variant: the first path given for a name is kept (setdefault).
RECURSIVE DerivativesLoopKeepsFirst(_, _)
DerivativesLoopKeepsFirst(list, dict) ==
  IF list = <<>> THEN [raised |-> None, dict |-> dict]
  ELSE IF Head(list) \notin EqWords
       THEN [raised |-> Some(Head(list)), dict |-> <<>>]
       ELSE DerivativesLoopKeepsFirst(Tail(list),
              IF SplitEq(Head(list))[1] \in DictKeys(dict) THEN dict
              ELSE DictSet(dict, SplitEq(Head(list))[1],
                           PathOf(SplitEq(Head(list))[2])))

\* Variant: a token without "=" is skipped.
RECURSIVE DerivativesLoopSkipsMalformed(_, _)
DerivativesLoopSkipsMalformed(list, dict) ==
  IF list = <<>> THEN [raised |-> None, dict |-> dict]
  ELSE IF Head(list) \notin EqWords
       THEN DerivativesLoopSkipsMalformed(Tail(list), dict)
       ELSE DerivativesLoopSkipsMalformed(Tail(list),
              DictSet(dict, SplitEq(Head(list))[1], PathOf(SplitEq(Head(list))[2])))

\* parse_derivatives_arg: the mapping as an insertion-ordered dict, or the
\* word of the ValueError it raises.
RECURSIVE DerivativesLoop(_, _)
DerivativesLoop(list, dict) ==
  IF list = <<>> THEN [raised |-> None, dict |-> dict]
  ELSE IF Head(list) \notin EqWords
       THEN [raised |-> Some(Head(list)), dict |-> <<>>]
       ELSE DerivativesLoop(Tail(list),
              DictSet(dict, SplitEq(Head(list))[1], PathOf(SplitEq(Head(list))[2])))

parse_derivatives_arg(derivatives_list) ==
  IF IsNone(derivatives_list) \/ Val(derivatives_list) = <<>>
  THEN [raised |-> None, dict |-> <<>>]
  ELSE DerivativesLoop(Val(derivatives_list), <<>>)

VARIABLES
  argv,         \* the command line of the pipeline process
  args,         \* the parsed namespace, None before parse_args returns
  stderr,       \* the word named by the error message of main, if any
  exitStatus,   \* the exit status of the process, None while it runs
  cliPc,        \* "shell": command line being typed; "parsed"; "exited"
  derivatives   \* the local variable derivatives of main, None while unset

cliVars == <<argv, args, stderr, exitStatus, cliPc, derivatives>>

InitCli ==
  /\ argv = <<>>
  /\ args = None
  /\ stderr = None
  /\ exitStatus = None
  /\ cliPc = "shell"
  /\ derivatives = None

\* ------------------------------------------------------------------------
\* A caller of generate_html_report
\* ------------------------------------------------------------------------
Titles == {"Analysis Report"}
Descriptions == {"", "Weekly QC"}
Themes == {"light", "dark", "minimal", "custom"}
Authors == {"", "Ann"}
TagNames == {"qc", "fmri"}
MetaKeys == {"Author", "Date"}
MetaValues == {StrVal("Bob"), StrVal(""), IntVal("0")}
ColorKeys == {"accent_color", "header_bg_start", "logo_url"}
ColorValues == {"#123456", "#63b3ed"}

\* Texts a caller may pass that hold the characters with a meaning in HTML
\* (<, >, &, both quotes) or in a format string (braces, %).
SpecialTexts == {"<b>Q&A</b>", "say \"hi\" & 'bye'", "{title} {0} 100%"}

VARIABLES
  title,          \* the arguments of the next call, as the caller holds them
  description,
  sections,
  theme,
  author,
  tags,
  metadata,
  custom_colors,
  now,            \* index into Clock of the current time
  html,           \* the value returned by the last call, None before it
  raised,         \* whether the last call raised
  pc              \* "idle": arguments being prepared; "returned": call done;
                  \* "again": a second call on the same objects done;
                  \* "plain": a later call without the overrides done

reportVars ==
  <<title, description, sections, theme, author, tags, metadata,
    custom_colors, now, html, raised, pc>>

\* The process of the report command line and the output location it
\* writes to.
VARIABLES
  reportArgv,     \* the command line of the report process
  reportArgs,     \* the namespace parse_args returned, None before
  report_html,    \* the local variable report_html of main, None while unset
  reportStderr,   \* what main printed on standard error, None when nothing
  reportExit,     \* the exit status of the process, None while it runs
  reportPc,       \* "shell", "parsed", "rendered", "dir", "exited"
  parentDir,      \* whether args.output_file.parent exists
  outFile         \* the contents of args.output_file, None when absent

reportCliVars ==
  <<reportArgv, reportArgs, report_html, reportStderr, reportExit, reportPc, parentDir,
    outFile>>

vars == <<reportVars, cliVars, reportCliVars>>

InitReportCli ==
  /\ reportArgv = <<>>
  /\ reportArgs = None
  /\ report_html = None
  /\ reportStderr = None
  /\ reportExit = None
  /\ reportPc = "shell"
  /\ parentDir = FALSE
  /\ outFile = None


\* Number of optional arguments the caller supplies.
Supplied(d, s, th, a, tg, m, c) ==
  (IF IsNone(d) THEN 0 ELSE 1) + (IF IsNone(s) THEN 0 ELSE 1)
  + (IF th = "light" THEN 0 ELSE 1) + (IF IsNone(a) THEN 0 ELSE 1)
  + (IF IsNone(tg) THEN 0 ELSE 1) + (IF IsNone(m) THEN 0 ELSE 1)
  + (IF IsNone(c) THEN 0 ELSE 1)

\* Size of a request: the optional arguments supplied and the elements of
\* the lists and mappings among them.
RequestSize(d, s, th, a, tg, m, c) ==
  Supplied(d, s, th, a, tg, m, c)
  + (IF IsNone(s) THEN 0 ELSE Len(Val(s)))
  + (IF IsNone(tg) THEN 0 ELSE Len(Val(tg)))
  + (IF IsNone(m) THEN 0 ELSE Len(Val(m)))
  + (IF IsNone(c) THEN 0 ELSE Cardinality(DOMAIN Val(c)))

InitReport ==
  /\ title \in Titles
  /\ description = None
  /\ sections = None
  /\ theme = "light"
  /\ author = None
  /\ tags = None
  /\ metadata = None
  /\ custom_colors = None
  /\ now = 1
  /\ html = None
  /\ raised = FALSE
  /\ pc = "idle"

\* Every change of an argument discards the previous result.
Prepare(d, s, th, a, tg, m, c) ==
  /\ RequestSize(d, s, th, a, tg, m, c) <= MaxRequestSize
  /\ description' = d
  /\ sections' = s
  /\ theme' = th
  /\ author' = a
  /\ tags' = tg
  /\ metadata' = m
  /\ custom_colors' = c
  /\ html' = None
  /\ raised' = FALSE
  /\ pc' = "idle"
  /\ UNCHANGED <<title, now>>
  /\ UNCHANGED <<cliVars, reportCliVars>>

SetDescription ==
  \E d \in Descriptions :
    Prepare(Some(d), sections, theme, author, tags, metadata, custom_colors)

SetTheme ==
  \E th \in Themes \ {theme} :
    Prepare(description, sections, th, author, tags, metadata, custom_colors)

SetAuthor ==
  \E a \in Authors :
    Prepare(description, sections, theme, Some(a), tags, metadata, custom_colors)

EmptySections ==
  Prepare(description, Some(<<>>), theme, author, tags, metadata, custom_colors)

AppendSection ==
  /\ ~IsNone(sections)
  /\ \E s \in SectionNames :
       Prepare(description, Some(Append(Val(sections), s)), theme, author, tags,
               metadata, custom_colors)

EmptyTags ==
  Prepare(description, sections, theme, author, Some(<<>>), metadata, custom_colors)

AppendTag ==
  /\ ~IsNone(tags)
  /\ \E t \in TagNames :
       Prepare(description, sections, theme, author, Some(Append(Val(tags), t)),
               metadata, custom_colors)

EmptyMetadata ==
  Prepare(description, sections, theme, author, tags, Some(<<>>), custom_colors)

PutMetadata ==
  /\ ~IsNone(metadata)
  /\ \E k \in MetaKeys, v \in MetaValues :
       Prepare(description, sections, theme, author, tags,
               Some(DictSet(Val(metadata), k, v)), custom_colors)

EmptyColors ==
  Prepare(description, sections, theme, author, tags, metadata, Some(<<>>))

PutColor ==
  /\ ~IsNone(custom_colors)
  /\ \E k \in ColorKeys, v \in ColorValues :
       LET f == Val(custom_colors)
       IN Prepare(description, sections, theme, author, tags, metadata,
                  Some([x \in (DOMAIN f) \cup {k} |-> IF x = k THEN v ELSE f[x]]))

\* The caller leaves one optional argument out again.
Omit ==
  \/ /\ ~IsNone(description)
     /\ Prepare(None, sections, theme, author, tags, metadata, custom_colors)
  \/ /\ ~IsNone(sections)
     /\ Prepare(description, None, theme, author, tags, metadata, custom_colors)
  \/ /\ ~IsNone(author)
     /\ Prepare(description, sections, theme, None, tags, metadata, custom_colors)
  \/ /\ ~IsNone(tags)
     /\ Prepare(description, sections, theme, author, None, metadata, custom_colors)
  \/ /\ ~IsNone(metadata)
     /\ Prepare(description, sections, theme, author, tags, None, custom_colors)
  \/ /\ ~IsNone(custom_colors)
     /\ Prepare(description, sections, theme, author, tags, metadata, None)

Tick ==
  /\ now < Len(Clock)
  /\ now' = now + 1
  /\ html' = None
  /\ raised' = FALSE
  /\ pc' = "idle"
  /\ UNCHANGED <<title, description, sections, theme, author, tags, metadata,
                 custom_colors>>
  /\ UNCHANGED <<cliVars, reportCliVars>>

\* html = generate_html_report(title, description, sections, theme, author,
\*                             tags, metadata, custom_colors)
Call ==
  /\ pc = "idle"
  /\ LET r == generate_html_report(title, description, sections, theme, author,
                                   tags, metadata, custom_colors, Clock[now])
     IN /\ html' = r.html
        /\ raised' = r.raised
        /\ metadata' = r.metadata
  /\ pc' = "returned"
  /\ UNCHANGED <<title, description, sections, theme, author, tags,
                 custom_colors, now>>
  /\ UNCHANGED <<cliVars, reportCliVars>>

\* The caller repeats the call with the very same argument objects, as the
\* first call left them, at the same time.
CallAgain ==
  /\ pc = "returned"
  /\ LET r == generate_html_report(title, description, sections, theme, author,
                                   tags, metadata, custom_colors, Clock[now])
     IN /\ html' = r.html
        /\ raised' = r.raised
        /\ metadata' = r.metadata
  /\ pc' = "again"
  /\ UNCHANGED <<title, description, sections, theme, author, tags,
                 custom_colors, now>>
  /\ UNCHANGED <<cliVars, reportCliVars>>

\* Variant: the overrides of the earlier call are applied once more.
CallWithLeakedOverrides ==
  /\ pc = "returned"
  /\ ~IsNone(custom_colors)
  /\ DOMAIN Val(custom_colors) # {}
  /\ LET r == generate_html_report(title, description, sections, theme, author,
                                   tags, metadata, custom_colors, Clock[now])
     IN /\ html' = r.html
        /\ raised' = r.raised
        /\ metadata' = r.metadata
  /\ pc' = "plain"
  /\ UNCHANGED <<title, description, sections, theme, author, tags,
                 custom_colors, now>>
  /\ UNCHANGED <<cliVars, reportCliVars>>

\* After a call with overrides the caller, still holding its override
\* mapping, makes the same call without the custom_colors argument.
CallWithoutOverrides ==
  /\ pc = "returned"
  /\ ~IsNone(custom_colors)
  /\ DOMAIN Val(custom_colors) # {}
  /\ LET r == generate_html_report(title, description, sections, theme, author,
                                   tags, metadata, None, Clock[now])
     IN /\ html' = r.html
        /\ raised' = r.raised
        /\ metadata' = r.metadata
  /\ pc' = "plain"
  /\ UNCHANGED <<title, description, sections, theme, author, tags,
                 custom_colors, now>>
  /\ UNCHANGED <<cliVars, reportCliVars>>

\* The user types one more word.
TypeWord ==
  /\ cliPc = "shell"
  /\ Len(argv) < MaxArgv
  /\ \E w \in CliWords : argv' = Append(argv, w)
  /\ UNCHANGED <<args, stderr, exitStatus, cliPc, derivatives>>

\* The user types the three positional words of a participant-level run.
TypePositionals ==
  /\ cliPc = "shell"
  /\ argv = <<>>
  /\ argv' = <<"bids", "out", "participant">>
  /\ UNCHANGED <<args, stderr, exitStatus, cliPc, derivatives>>

\* Number of option words of a command line.
OptionCount(argv_) == Cardinality({i \in DOMAIN argv_ : IsDash(argv_[i])})

\* Whether every option word of a command line is the derivatives flag.
OnlyDerivatives(argv_) ==
  \A i \in DOMAIN argv_ : IsDash(argv_[i]) => argv_[i] \in {"-d", "--derivatives"}

\* Options the user of the pipeline types after the positional words, each
\* with its value: accepted ones, ones whose value the parser rejects, and
\* the two that end the run in the parser.
PipelineOptionGroups ==
  { <<"--strategy", "custom">>, <<"--strategy", "bogus">>,
    <<"--config", "cfg.yaml">>, <<"--run", "4">>, <<"--run", "x">>,
    <<"--threshold", "abc">>, <<"--help">>, <<"--version">> }

\* The user adds one option to a command line without derivatives.
TypeOption ==
  /\ cliPc = "shell"
  /\ Len(argv) >= 3
  /\ \A i \in DOMAIN argv : argv[i] \notin {"-d", "--derivatives"}
  /\ OptionCount(argv) < MaxOptions
  /\ \E g \in PipelineOptionGroups : argv' = argv \o g
  /\ UNCHANGED <<args, stderr, exitStatus, cliPc, derivatives>>

\* The user adds one occurrence of the derivatives flag and its token.
TypeDerivative ==
  /\ cliPc = "shell"
  /\ Len(argv) >= 3
  /\ OnlyDerivatives(argv)
  /\ Len(argv) < 3 + 2 * MaxDerivatives
  /\ \E f \in {"-d", "--derivatives"}, w \in DerivativeTokens :
       argv' = argv \o <<f, w>>
  /\ UNCHANGED <<args, stderr, exitStatus, cliPc, derivatives>>

\* Variant: a command line the parser rejects ends the process with status 1.
MainParseErrorExitsOne ==
  /\ cliPc = "shell"
  /\ LET r == parse_args(argv)
     IN CASE r.status = "ok" ->
               /\ args' = Some(r.ns)
               /\ exitStatus' = None
               /\ cliPc' = "parsed"
          [] r.status = "error" ->
               /\ args' = None
               /\ exitStatus' = Some(1)
               /\ cliPc' = "exited"
          [] OTHER ->
               /\ args' = None
               /\ exitStatus' = Some(0)
               /\ cliPc' = "exited"
  /\ UNCHANGED <<argv, stderr, derivatives>>

\* main, up to the return of parser.parse_args(): argparse exits with
\* status 2 on an error and with status 0 after --help or --version.
MainParse ==
  /\ cliPc = "shell"
  /\ LET r == parse_args(argv)
     IN CASE r.status = "ok" ->
               /\ args' = Some(r.ns)
               /\ exitStatus' = None
               /\ cliPc' = "parsed"
          [] r.status = "error" ->
               /\ args' = None
               /\ exitStatus' = Some(2)
               /\ cliPc' = "exited"
          [] OTHER ->
               /\ args' = None
               /\ exitStatus' = Some(0)
               /\ cliPc' = "exited"
  /\ UNCHANGED <<argv, stderr, derivatives>>

\* Variant: the ValueError of parse_derivatives_arg is reported but the
\* process exits with status 0.
MainBodyExitsZero ==
  /\ cliPc = "parsed"
  /\ LET ns == Val(args)
         truthy == ~IsNone(ns.derivatives) /\ Val(ns.derivatives) # <<>>
         d == IF truthy THEN parse_derivatives_arg(ns.derivatives)
              ELSE [raised |-> None, dict |-> <<>>]
     IN IF ~IsNone(d.raised)
        THEN /\ stderr' = Some(<<"Error: ">> \o ValueErrorMessage(Val(d.raised)))
             /\ exitStatus' = Some(0)
             /\ derivatives' = None
        ELSE /\ stderr' = None
             /\ exitStatus' = Some(0)
             /\ derivatives' = IF truthy THEN Some(d.dict) ELSE None
  /\ cliPc' = "exited"
  /\ UNCHANGED <<argv, args>>

\* main, the try block and its except Exception handler: the body runs to
\* its end or to the exception it raises.
MainBody ==
  /\ cliPc = "parsed"
  /\ LET ns == Val(args)
         truthy == ~IsNone(ns.derivatives) /\ Val(ns.derivatives) # <<>>
         d == IF truthy THEN parse_derivatives_arg(ns.derivatives)
              ELSE [raised |-> None, dict |-> <<>>]
     IN IF ~IsNone(d.raised)
        THEN /\ stderr' = Some(<<"Error: ">> \o ValueErrorMessage(Val(d.raised)))
             /\ exitStatus' = Some(1)
             /\ derivatives' = None
        ELSE /\ derivatives' = IF truthy THEN Some(d.dict) ELSE None
             /\ IF Val(ns.analysis_level) = "participant"
                THEN /\ stderr' = None
                     /\ exitStatus' = Some(0)
                ELSE /\ stderr' = Some(<<"Unknown analysis level: ",
                                         Val(ns.analysis_level)>>)
                     /\ exitStatus' = Some(1)
  /\ cliPc' = "exited"
  /\ UNCHANGED <<argv, args>>

\* main, the except KeyboardInterrupt handler: the user interrupts the body.
MainInterrupt ==
  /\ cliPc = "parsed"
  /\ stderr' = Some(<<"Interrupted by user">>)
  /\ exitStatus' = Some(130)
  /\ cliPc' = "exited"
  /\ UNCHANGED <<argv, args, derivatives>>

\* The user of the report generator types the two positional words.
TypeReportPositionals ==
  /\ reportPc = "shell"
  /\ reportArgv = <<>>
  /\ reportArgv' = <<"in", "out/report.html">>
  /\ UNCHANGED <<reportArgs, report_html, reportStderr, reportExit, reportPc,
                 parentDir, outFile>>

\* Options the user of the report generator types after the positional
\* words, each with its values.
ReportOptionGroups ==
  { <<"--tags", "qc">>, <<"--tags", "fmri">>, <<"--tags", "fmri", "qc">>,
    <<"--sections", "metadata", "quality">>, <<"--author", "Ann">>,
    <<"--overwrite">>, <<"--theme", "dark">>, <<"--theme", "neon">>,
    <<"--dpi", "x">>, <<"--help">>, <<"--version">> }

\* The user adds one option to the command line.
TypeReportOption ==
  /\ reportPc = "shell"
  /\ Len(reportArgv) >= 2
  /\ OptionCount(reportArgv) < MaxOptions
  /\ \E g \in ReportOptionGroups : reportArgv' = reportArgv \o g
  /\ UNCHANGED <<reportArgs, report_html, reportStderr, reportExit, reportPc,
                 parentDir, outFile>>

\* main of the report generator, up to the return of parser.parse_args():
\* argparse exits with status 2 on an error and with status 0 after --help
\* or --version.
ReportParse ==
  /\ reportPc = "shell"
  /\ LET r == report_parse_args(reportArgv)
     IN CASE r.status = "ok" ->
               /\ reportArgs' = Some(r.ns)
               /\ reportExit' = None
               /\ reportPc' = "parsed"
          [] r.status = "error" ->
               /\ reportArgs' = None
               /\ reportExit' = Some(2)
               /\ reportPc' = "exited"
          [] OTHER ->
               /\ reportArgs' = None
               /\ reportExit' = Some(0)
               /\ reportPc' = "exited"
  /\ UNCHANGED <<reportArgv, report_html, reportStderr, parentDir, outFile>>

\* sections=args.sections or ["summary", "metrics", "visualizations"]
SectionsArgument(ns) ==
  IF IsNone(ns.sections) \/ Val(ns.sections) = <<>>
  THEN Some(<<"summary", "metrics", "visualizations">>)
  ELSE ns.sections

\* report_html = generate_html_report(title=..., ..., tags=args.tags)
ReportRender ==
  /\ reportPc = "parsed"
  /\ LET ns == Val(reportArgs)
         r == generate_html_report(Val(ns.title), ns.description,
                SectionsArgument(ns), Val(ns.theme), ns.author, ns.tags, None,
                None, Clock[now])
     IN IF r.raised
        THEN /\ report_html' = None
             /\ reportStderr' = Some(<<"Error: ", "render">>)
             /\ reportExit' = Some(1)
             /\ reportPc' = "exited"
        ELSE /\ report_html' = Some(r.html)
             /\ reportStderr' = None
             /\ reportExit' = None
             /\ reportPc' = "rendered"
  /\ UNCHANGED <<reportArgv, reportArgs, parentDir, outFile>>

\* Variant: the parent directory is made before the report is rendered.
ReportMkdirBeforeRender ==
  /\ reportPc = "parsed"
  /\ ~parentDir
  /\ parentDir' = TRUE
  /\ UNCHANGED <<reportArgv, reportArgs, report_html, reportStderr, reportExit,
                 reportPc, outFile>>

\* args.output_file.parent.mkdir(parents=True, exist_ok=True)
ReportMkdir ==
  /\ reportPc = "rendered"
  /\ parentDir' = TRUE
  /\ reportPc' = "dir"
  /\ UNCHANGED <<reportArgv, reportArgs, report_html, reportStderr, reportExit,
                 outFile>>

\* with open(args.output_file, 'w') as f: f.write(report_html); the body
\* ends and main returns.
ReportWrite ==
  /\ reportPc = "dir"
  /\ outFile' = report_html
  /\ reportExit' = Some(0)
  /\ reportPc' = "exited"
  /\ UNCHANGED <<reportArgv, reportArgs, report_html, reportStderr, parentDir>>

\* The operation main is about to run, by position in the body.
PendingOperation ==
  CASE reportPc = "parsed" -> "render"
    [] reportPc = "rendered" -> "mkdir"
    [] reportPc = "dir" -> "write"

\* What is left at args.output_file when the pending operation is cut
\* short: open(..., 'w') may already have emptied the file.
CutShort ==
  IF reportPc = "dir" THEN {outFile, Some(<<>>)} ELSE {outFile}

\* except Exception: the pending operation raises (MemoryError in the
\* rendering, OSError in mkdir, open or write).
ReportRaise ==
  /\ reportPc \in {"parsed", "rendered", "dir"}
  /\ reportStderr' = Some(<<"Error: ", PendingOperation>>)
  /\ reportExit' = Some(1)
  /\ reportPc' = "exited"
  /\ outFile' \in CutShort
  /\ UNCHANGED <<reportArgv, reportArgs, report_html, parentDir>>

\* except KeyboardInterrupt: the user interrupts the pending operation.
ReportInterrupt ==
  /\ reportPc \in {"parsed", "rendered", "dir"}
  /\ reportStderr' = Some(<<"Interrupted by user">>)
  /\ reportExit' = Some(130)
  /\ reportPc' = "exited"
  /\ outFile' \in CutShort
  /\ UNCHANGED <<reportArgv, reportArgs, report_html, parentDir>>

\* The user goes on to run the report generator once more, on the same
\* location, with a command line typed anew.
ReportRerun ==
  /\ reportPc = "exited"
  /\ reportArgv' = <<>>
  /\ reportArgs' = None
  /\ report_html' = None
  /\ reportStderr' = None
  /\ reportExit' = None
  /\ reportPc' = "shell"
  /\ UNCHANGED <<parentDir, outFile>>

NextCli ==
  \/ TypeWord /\ UNCHANGED <<reportVars, reportCliVars>>
  \/ MainParse /\ UNCHANGED <<reportVars, reportCliVars>>
  \/ MainBody /\ UNCHANGED <<reportVars, reportCliVars>>

\* One of the two programs is run: the pipeline on a participant-level
\* command line with derivatives or with other options, or the report
\* generator on a command line with options.
PipelineNotRun == cliPc = "shell" /\ argv = <<>>
ReportNotRun == reportPc = "shell" /\ reportArgv = <<>> /\ ~parentDir

NextMain ==
  \/ ReportNotRun /\ TypePositionals /\ UNCHANGED <<reportVars, reportCliVars>>
  \/ TypeOption /\ UNCHANGED <<reportVars, reportCliVars>>
  \/ TypeDerivative /\ UNCHANGED <<reportVars, reportCliVars>>
  \/ ReportNotRun /\ MainParse /\ UNCHANGED <<reportVars, reportCliVars>>
  \/ MainBody /\ UNCHANGED <<reportVars, reportCliVars>>
  \/ MainInterrupt /\ UNCHANGED <<reportVars, reportCliVars>>
  \/ PipelineNotRun /\ TypeReportPositionals /\ UNCHANGED <<reportVars, cliVars>>
  \/ TypeReportOption /\ UNCHANGED <<reportVars, cliVars>>
  \/ PipelineNotRun /\ ReportParse /\ UNCHANGED <<reportVars, cliVars>>
  \/ ReportRender /\ UNCHANGED <<reportVars, cliVars>>
  \/ ReportMkdir /\ UNCHANGED <<reportVars, cliVars>>
  \/ ReportWrite /\ UNCHANGED <<reportVars, cliVars>>
  \/ ReportRaise /\ UNCHANGED <<reportVars, cliVars>>
  \/ ReportInterrupt /\ UNCHANGED <<reportVars, cliVars>>
  \/ ReportRerun /\ UNCHANGED <<reportVars, cliVars>>

Init == InitReport /\ InitCli /\ InitReportCli

Next ==
  \/ SetDescription
  \/ SetTheme
  \/ SetAuthor
  \/ EmptySections
  \/ AppendSection
  \/ EmptyTags
  \/ AppendTag
  \/ EmptyMetadata
  \/ PutMetadata
  \/ EmptyColors
  \/ PutColor
  \/ Omit
  \/ Tick
  \/ Call
  \/ CallAgain
  \/ CallWithoutOverrides

Spec == Init /\ [][Next]_vars

SpecCli == Init /\ [][NextCli]_vars

SpecMain == Init /\ [][NextMain]_vars

\* A caller whose texts are drawn from SpecialTexts: the title, and
\* optionally a description, an author, one or two tags and one metadata
\* entry.
InitText ==
  /\ InitCli
  /\ InitReportCli
  /\ title \in SpecialTexts
  /\ description \in {None} \cup {Some(t) : t \in SpecialTexts}
  /\ sections = None
  /\ theme = "light"
  /\ author \in {None} \cup {Some(t) : t \in SpecialTexts}
  /\ tags \in {None} \cup {Some(<<t>>) : t \in SpecialTexts}
                   \cup {Some(<<t, u>>) : t \in SpecialTexts, u \in SpecialTexts}
  /\ metadata \in {None} \cup {Some(<<[key |-> k, value |-> StrVal(v)]>>) :
                                  k \in SpecialTexts, v \in SpecialTexts}
  /\ custom_colors = None
  /\ now = 1
  /\ html = None
  /\ raised = FALSE
  /\ pc = "idle"

NextText ==
  \/ Tick
  \/ Call

SpecText == InitText /\ [][NextText]_vars

\* ------------------------------------------------------------------------
\* Reading a rendered document
\* ------------------------------------------------------------------------
HeadLen == 7
CssLen == 2 * Len(CssRefs) + 1

\* The value interpolated at the i-th placeholder of the CSS template.
CssValueAt(h, i) == h[HeadLen + 2 * i]

\* The positions of the document that hold the value of CSS key k.
CssPositions(k) == {HeadLen + 2 * i : i \in {j \in DOMAIN CssRefs : CssRefs[j] = k}}

\* First index of piece p in h (0 when absent).
IndexOf(h, p) ==
  LET S == {i \in DOMAIN h : h[i] = p}
  IN IF S = {} THEN 0 ELSE CHOOSE i \in S : \A j \in S : i <= j

\* The pieces that directly follow an occurrence of piece p, in order.
RECURSIVE After(_, _)
After(h, p) ==
  IF Len(h) < 2 THEN <<>>
  ELSE IF Head(h) = p THEN <<h[2]>> \o After(Tail(Tail(h)), p)
       ELSE After(Tail(h), p)

HeaderOf(h) == SubSeq(h, IndexOf(h, "<header> <h1>"), IndexOf(h, "</header>"))
NavOf(h) == SubSeq(h, IndexOf(h, "<nav> <ul>"), IndexOf(h, "</ul> </nav>"))
MainOf(h) == SubSeq(h, IndexOf(h, "</ul> </nav>") + 1, IndexOf(h, "<footer>") - 1)
FooterOf(h) == SubSeq(h, IndexOf(h, "<footer>"), IndexOf(h, "</div> <script>") - 1)

\* The hrefs of the navigation links and the ids of the section fragments.
NavHrefs(h) == After(NavOf(h), "<li><a href=\"#")
SectionIdsOf(h) == After(MainOf(h), "<section id=\"")

\* The metadata items of the header: label and shown text, in order.
RECURSIVE ItemsOf(_)
ItemsOf(h) ==
  IF Len(h) < 4 THEN <<>>
  ELSE IF Head(h) = "<div class=\"metadata-item\"><span class=\"metadata-label\">"
       THEN <<[key |-> h[2], text |-> h[4]]>> \o ItemsOf(SubSeq(h, 5, Len(h)))
       ELSE ItemsOf(Tail(h))

HeaderItems(h) == ItemsOf(HeaderOf(h))

\* Number of occurrences of piece p in h.
Count(h, p) == Cardinality({i \in DOMAIN h : h[i] = p})

Returned == pc = "returned" /\ ~raised
CallStep == pc = "idle" /\ pc' = "returned"

\* The section list the call works on.
SectionsUsed == IF IsNone(sections) THEN <<"summary", "metrics", "visualizations">>
                ELSE Val(sections)

\* ------------------------------------------------------------------------
\* Claims
\* ------------------------------------------------------------------------

\* C1: generate_html_report leaves every argument object of the caller
\* (sections, tags, metadata, custom_colors) with the contents it had before
\* the call.
C1_ArgumentsNotMutated ==
  [][CallStep => /\ sections' = sections
                 /\ tags' = tags
                 /\ metadata' = metadata
                 /\ custom_colors' = custom_colors]_vars

OnlyAccentOverride ==
  /\ Returned
  /\ theme = "light"
  /\ ~IsNone(custom_colors)
  /\ DOMAIN Val(custom_colors) = {"accent_color"}
  /\ Val(custom_colors)["accent_color"] = "#123456"

\* C2 (as stated): with theme "light" and override {accent_color: "#123456"}
\* the document contains "#123456" and no occurrence of "#667eea".
C2_NoDefaultAccentLeft ==
  OnlyAccentOverride =>
    /\ "#123456" \in Range(html)
    /\ "#667eea" \notin Range(html)

\* C2 (amended): with theme "light" and override {accent_color: "#123456"}
\* the document holds "#123456" at every accent_color position of the CSS;
\* "#667eea" still occurs, exactly at the header_bg_start and table_header_bg
\* positions, whose light values equal the default accent.
C2_AccentOverridden ==
  OnlyAccentOverride =>
    /\ "#123456" \in Range(html)
    /\ \A j \in CssPositions("accent_color") : html[j] = "#123456"
    /\ {j \in DOMAIN html : html[j] = "#667eea"}
         = CssPositions("header_bg_start") \cup CssPositions("table_header_bg")

C2_Witness == OnlyAccentOverride

\* C4: the palette used to render has, for each key, the override's value
\* when the key is in the override and otherwise the value of the selected
\* built-in palette.
C4_MergeKeyByKey ==
  Returned =>
    \A i \in DOMAIN CssRefs :
      LET k == CssRefs[i]
          selected == IF theme \in {"light", "dark", "minimal"}
                      THEN schemes[theme] ELSE schemes["light"]
      IN CssValueAt(html, i) =
           IF ~IsNone(custom_colors) /\ k \in DOMAIN Val(custom_colors)
           THEN Val(custom_colors)[k] ELSE selected[k]

C4_Witness ==
  /\ Returned
  /\ theme = "dark"
  /\ ~IsNone(custom_colors)
  /\ DOMAIN Val(custom_colors) = {"accent_color", "logo_url"}

\* C5: for every theme name and every override the merged palette has every
\* key the CSS template refers to, so the interpolation never raises; each
\* built-in palette defines all the keys of DEFAULT_CSS.
C5_NoMissingKey ==
  /\ pc = "returned" => (~raised /\ Len(html) > HeadLen + CssLen)
  /\ \A t \in DOMAIN schemes : Range(CssRefs) \subseteq DOMAIN schemes[t]

C5_Witness ==
  /\ Returned
  /\ theme = "custom"
  /\ ~IsNone(custom_colors)
  /\ "logo_url" \in DOMAIN Val(custom_colors)

\* C6: a theme name other than light, dark, minimal selects the light
\* palette without raising, and the document is the one theme "light" gives
\* for the same other arguments.
C6_UnknownThemeIsLight ==
  (pc = "returned" /\ theme \notin {"light", "dark", "minimal"}) =>
    /\ ~raised
    /\ \A i \in DOMAIN CssRefs :
         (IsNone(custom_colors) \/ CssRefs[i] \notin DOMAIN Val(custom_colors))
           => CssValueAt(html, i) = schemes["light"][CssRefs[i]]
    /\ html = generate_html_report(title, description, sections, "light",
                author, tags, metadata, custom_colors, Clock[now]).html

C6_Witness ==
  /\ Returned
  /\ theme = "custom"
  /\ ~IsNone(sections)
  /\ Len(Val(sections)) = 2

\* C7: with the section list omitted the call renders as with sections
\* [summary, metrics, visualizations]: the document holds the title and one
\* navigation link for each of the three, in that order.
C7_DefaultSections ==
  (Returned /\ IsNone(sections)) =>
    /\ html[6] = title
    /\ HeaderOf(html)[2] = title
    /\ NavHrefs(html) = <<"summary", "metrics", "visualizations">>
    /\ SectionIdsOf(html) = <<"summary", "metrics", "visualizations">>
    /\ html = generate_html_report(title, description,
                Some(<<"summary", "metrics", "visualizations">>), theme, author,
                tags, metadata, custom_colors, Clock[now]).html

C7_Witness ==
  /\ Returned
  /\ IsNone(sections)
  /\ theme = "minimal"
  /\ Supplied(description, sections, theme, author, tags, metadata,
              custom_colors) = 1

AuthorItems(h) == SelectSeq(HeaderItems(h), LAMBDA it : it.key = "Author")

\* C8: with a non-empty author the header shows exactly one Author item, with
\* the supplied author and never the caller's earlier value; with no author
\* the caller's "Author" entry, if any, is shown unchanged.
C8_AuthorItem ==
  Returned =>
    /\ TruthyStr(author) =>
         AuthorItems(html) = <<[key |-> "Author", text |-> Val(author)]>>
    /\ (~TruthyStr(author) /\ ~IsNone(metadata)
          /\ "Author" \in DictKeys(Val(metadata))) =>
         AuthorItems(html) =
           <<[key |-> "Author", text |-> DictVal(Val(metadata), "Author").text]>>
    /\ (~TruthyStr(author)
          /\ (IsNone(metadata) \/ "Author" \notin DictKeys(Val(metadata)))) =>
         AuthorItems(html) = <<>>

\* C9: the main content is, in the caller's order, the placeholder fragment
\* of each identifier of the section list: an identifier listed n times
\* gives n fragments and nothing else is emitted.
C9_FragmentsInOrder ==
  Returned =>
    LET ids == [i \in DOMAIN SectionsUsed |-> lower(SectionsUsed[i])]
        shown == SelectSeq(ids, LAMBDA s : s \in KnownSections)
        plain == Len(SelectSeq(shown, LAMBDA s : s # "metadata"))
    IN /\ SectionIdsOf(html) = shown
       /\ Len(MainOf(html)) = 3 * plain + 5 * (Len(shown) - plain)

C9_Witness ==
  /\ Returned
  /\ ~IsNone(sections)
  /\ Val(sections) = <<"quality", "quality">>

\* The document the same call gives when the section list is cut down to the
\* identifiers that satisfy keep.
WithSections(keep(_)) ==
  generate_html_report(title, description, Some(SelectSeq(SectionsUsed, keep)),
    theme, author, tags, metadata, custom_colors, Clock[now]).html

SameButNavigation(h1, h2) ==
  /\ MainOf(h1) = MainOf(h2)
  /\ HeaderOf(h1) = HeaderOf(h2)
  /\ FooterOf(h1) = FooterOf(h2)
  /\ SubSeq(h1, 1, HeadLen + CssLen) = SubSeq(h2, 1, HeadLen + CssLen)

\* C10 (as stated): an identifier outside {summary, metrics, visualizations,
\* quality, metadata} gives the empty fragment: main content, header and
\* footer are those of the list without such identifiers.
C10_OutsideSetIsEmpty ==
  pc = "returned" =>
    /\ ~raised
    /\ SameButNavigation(html, WithSections(LAMBDA s : s \in KnownSections))

\* C10 (amended): an identifier whose lower-cased form is outside the set
\* gives the empty fragment and raises no error: main content, header and
\* footer are those of the list without such identifiers.
C10_UnknownIsEmpty ==
  pc = "returned" =>
    /\ ~raised
    /\ SameButNavigation(html, WithSections(LAMBDA s : lower(s) \in KnownSections))

C10_Witness ==
  /\ Returned
  /\ ~IsNone(sections)
  /\ Val(sections) = <<"bogus", "metrics">>

\* The labels given on the command line: the argument words that follow each
\* -p, in order.
RECURSIVE LabelsGiven(_, _)
LabelsGiven(argv_, i) ==
  IF i > Len(argv_) THEN <<>>
  ELSE IF argv_[i] \in {"-p", "--participant-label"}
       THEN SubSeq(argv_, i + 1, i + LeadingArgs(argv_, i + 1))
              \o LabelsGiven(argv_, i + 1)
       ELSE LabelsGiven(argv_, i + 1)

\* C3: when -p/--participant-label occurs one or more times,
\* args.participant_label is the list of every label of every occurrence, in
\* command-line order.
C3_AllLabelsCollected ==
  (cliPc = "parsed" /\ \E i \in DOMAIN argv : argv[i] \in {"-p", "--participant-label"}) =>
    Val(args).participant_label = Some(LabelsGiven(argv, 1))

\* C11: the navigation block holds exactly one link per entry of the section
\* list the call works on, in list order, each with href "#" followed by the
\* entry as given; the number of links is the length of the list.
C11_OneLinkPerSection ==
  Returned =>
    LET nav == NavOf(html)
    IN /\ After(nav, "<li><a href=\"#") = SectionsUsed
       /\ Count(html, "<li><a href=\"#") = Len(SectionsUsed)
       /\ Len(nav) = 2 + 5 * Len(SectionsUsed)
       /\ \A i \in DOMAIN SectionsUsed :
            /\ nav[5 * i - 3] = "<li><a href=\"#"
            /\ nav[5 * i - 2] = SectionsUsed[i]
            /\ nav[5 * i - 1] = "\">"

C11_Witness ==
  /\ Returned
  /\ ~IsNone(sections)
  /\ Val(sections) = <<"bogus", "Summary", "bogus">>

\* C12: every rendered document has its parts in one order: the head (author
\* meta, description meta, title, CSS), the header block, the navigation
\* block, the section fragments, the footer block, the script block; each
\* part occurs exactly once and nothing else is in the document.
C12_PartsInFixedOrder ==
  Returned =>
    LET h == html
        body == HeadLen + CssLen + 1
        header == IndexOf(h, "<header> <h1>")
        headerEnd == IndexOf(h, "</header>")
        nav == IndexOf(h, "<nav> <ul>")
        navEnd == IndexOf(h, "</ul> </nav>")
        footer == IndexOf(h, "<footer>")
        copy == IndexOf(h, "<p>&copy; ")
        script == IndexOf(h, "</div> <script>")
        markers == {h[1], h[3], h[5], h[7], h[body], "<header> <h1>",
                    "</header>", "<nav> <ul>", "</ul> </nav>", "<footer>",
                    "<p>&copy; ", "</div> <script>", javascript_content,
                    "</script> </body> </html>"}
    IN /\ h[2] = (IF TruthyStr(author) THEN Val(author) ELSE "Analysis Pipeline")
       /\ h[3] = "\"> <meta name=\"description\" content=\""
       /\ h[4] = (IF TruthyStr(description) THEN Val(description)
                  ELSE "Generated analysis report")
       /\ h[5] = "\"> <title>"
       /\ h[6] = title
       /\ h[7] = "</title> <style>"
       /\ h[body] = "</style> </head> <body> <div class=\"report-container\">"
       /\ header = body + 1
       /\ headerEnd > header
       /\ nav = headerEnd + 1
       /\ navEnd > nav
       /\ footer > navEnd
       /\ copy >= footer + 1
       /\ script = copy + 3
       /\ h[script + 1] = javascript_content
       /\ h[script + 2] = "</script> </body> </html>"
       /\ Len(h) = script + 2
       /\ footer > navEnd + 1 => h[navEnd + 1] = "<section id=\""
       /\ \A i \in DOMAIN h :
            /\ h[i] = "<section id=\"" => (navEnd < i /\ i < footer)
            /\ h[i] \in markers =>
                 i \in {1, 3, 5, 7, body, header, headerEnd, nav, navEnd, footer,
                        copy, script, script + 1, script + 2}

C12_Witness ==
  /\ Returned
  /\ ~IsNone(sections)
  /\ Val(sections) = <<"metadata">>
  /\ ~IsNone(tags)
  /\ Len(Val(tags)) = 1

\* C13: a second call with the very same argument objects, as the first call
\* left them, and the same current time returns the same document as the
\* first call.
C13_SecondCallSameDocument ==
  [][(pc = "returned" /\ pc' = "again") => (html' = html /\ raised' = raised)]_vars

C13_Witness ==
  /\ pc = "again"
  /\ ~raised
  /\ TruthyStr(author)
  /\ ~IsNone(metadata)
  /\ Len(Val(metadata)) = 2

\* C14: with an explicitly empty section list the document has no navigation
\* link and no section fragment, while head, header and footer are present;
\* the defaults are not put in the place of the empty list.
C14_EmptySectionList ==
  (Returned /\ sections = Some(<<>>)) =>
    /\ NavOf(html) = <<"<nav> <ul>", "</ul> </nav>">>
    /\ NavHrefs(html) = <<>>
    /\ MainOf(html) = <<>>
    /\ Count(html, "<section id=\"") = 0
    /\ html[6] = title
    /\ html[HeadLen + CssLen + 1]
         = "</style> </head> <body> <div class=\"report-container\">"
    /\ SubSeq(HeaderOf(html), 1, 3) = <<"<header> <h1>", title, "</h1>">>
    /\ Len(FooterOf(html)) >= 4
    /\ FooterOf(html)[1] = "<footer>"

C14_Witness ==
  /\ Returned
  /\ sections = Some(<<>>)
  /\ ~IsNone(tags)

\* The tokens with "=" of the model, read by hand: the text before the first
\* "=" and the text after it.
NameBefore(word) ==
  CASE word = "a=/x" -> "a" [] word = "b=/y" -> "b" [] word = "a=/z=1" -> "a"
TextAfter(word) ==
  CASE word = "a=/x" -> "/x" [] word = "b=/y" -> "/y" [] word = "a=/z=1" -> "/z=1"
Malformed == {"bad", "worse"}

\* The body of the pipeline's main ran to its end or to an exception.
BodyRan == cliPc = "exited" /\ ~IsNone(args) /\ exitStatus # Some(130)

\* The list main passes to parse_derivatives_arg (empty when there is none).
DerivativesArg ==
  IF IsNone(args) \/ IsNone(Val(args).derivatives) THEN <<>>
  ELSE Val(Val(args).derivatives)

\* C15: on a list whose tokens all contain "=", parse_derivatives_arg returns
\* a mapping whose keys are the texts before the first "=" of the tokens and
\* whose value for a name is the path of the text after the first "=" of the
\* last token with that name; ["a=/x", "b=/y"] gives {a: /x, b: /y}.
C15_MappingOfTokens ==
  (BodyRan /\ DerivativesArg # <<>>
     /\ \A i \in DOMAIN DerivativesArg : DerivativesArg[i] \notin Malformed) =>
    /\ ~IsNone(derivatives)
    /\ LET d == Val(derivatives)
           l == DerivativesArg
       IN /\ DictKeys(d) = {NameBefore(l[i]) : i \in DOMAIN l}
          /\ Len(d) = Cardinality(DictKeys(d))
          /\ \A i \in DOMAIN l :
               (\A j \in DOMAIN l : j > i => NameBefore(l[j]) # NameBefore(l[i]))
                 => DictVal(d, NameBefore(l[i])) = [posix |-> TextAfter(l[i])]
          /\ l = <<"a=/x", "b=/y">> =>
               d = << [key |-> "a", value |-> [posix |-> "/x"]],
                      [key |-> "b", value |-> [posix |-> "/y"]] >>

C15_Witness ==
  /\ BodyRan
  /\ DerivativesArg = <<"a=/x", "b=/y", "a=/z=1">>
  /\ derivatives = Some(<< [key |-> "a", value |-> [posix |-> "/z=1"]],
                           [key |-> "b", value |-> [posix |-> "/y"]] >>)

\* C16: on a list with a token without "=", parse_derivatives_arg raises a
\* ValueError whose message names the first such token and the format
\* name=path; no mapping, not even a partial one, is returned.
C16_MalformedTokenRejected ==
  (BodyRan /\ \E i \in DOMAIN DerivativesArg : DerivativesArg[i] \in Malformed) =>
    LET l == DerivativesArg
        first == CHOOSE i \in DOMAIN l :
                   l[i] \in Malformed /\ \A j \in 1..(i - 1) : l[j] \notin Malformed
    IN /\ derivatives = None
       /\ exitStatus = Some(1)
       /\ stderr = Some(<< "Error: ", "Invalid derivatives argument: ", l[first],
                           ". Expected format: name=path (e.g., preprocessed=/path/to/data)" >>)

C16_Witness ==
  /\ BodyRan
  /\ DerivativesArg = <<"a=/x", "worse", "bad">>

\* The tokens given on the command line: the word that follows each
\* occurrence of -d/--derivatives, in order.
RECURSIVE TokensGiven(_, _)
TokensGiven(argv_, i) ==
  IF i >= Len(argv_) THEN <<>>
  ELSE IF argv_[i] \in {"-d", "--derivatives"}
       THEN <<argv_[i + 1]>> \o TokensGiven(argv_, i + 2)
       ELSE TokensGiven(argv_, i + 1)

\* C17: args.derivatives is the list of the tokens of all the occurrences of
\* -d/--derivatives, in command-line order, and None when the flag does not
\* occur.
C17_EveryOccurrenceCollected ==
  (cliPc \in {"parsed", "exited"} /\ ~IsNone(args)) =>
    LET n == Cardinality({i \in DOMAIN argv : argv[i] \in {"-d", "--derivatives"}})
    IN /\ n = 0 => Val(args).derivatives = None
       /\ n > 0 => /\ Val(args).derivatives = Some(TokensGiven(argv, 1))
                   /\ Len(Val(Val(args).derivatives)) = n

C17_Witness ==
  /\ cliPc = "parsed"
  /\ argv = <<"bids", "out", "participant", "-d", "a=/x", "--derivatives", "bad",
              "-d", "a=/x">>

\* The words of the command line that are not an option string nor part of
\* the arguments of -p/--participant-label.
RECURSIVE PositionalWords(_, _)
PositionalWords(argv_, i) ==
  IF i > Len(argv_) THEN <<>>
  ELSE IF argv_[i] \in {"-p", "--participant-label"}
       THEN PositionalWords(argv_, i + 1 + LeadingArgs(argv_, i + 1))
       ELSE <<argv_[i]>> \o PositionalWords(argv_, i + 1)

\* C18: a command line is accepted only if it supplies the three positional
\* words and the third is "participant"; otherwise the parser rejects it and
\* the body of main does not run, so the 'unknown analysis level' branch is
\* never taken.
C18_OnlyParticipantAccepted ==
  /\ ~IsNone(args) =>
       /\ Val(args).analysis_level = Some("participant")
       /\ ~IsNone(Val(args).input_dir)
       /\ ~IsNone(Val(args).output_dir)
       /\ Len(PositionalWords(argv, 1)) = 3
       /\ PositionalWords(argv, 1)[3] = "participant"
  /\ (cliPc = "exited" /\ IsNone(args)) => (exitStatus = Some(2) /\ stderr = None)
  /\ ~IsNone(stderr) => Val(stderr)[1] # "Unknown analysis level: "

C18_Witness ==
  /\ cliPc = "exited"
  /\ exitStatus = Some(2)
  /\ argv = <<"01", "02", "01">>

\* C19: in both command lines, once the arguments are parsed, the process
\* exits with 0 when the body completes, with 1 and the message on standard
\* error when the body raises an exception other than a keyboard interrupt,
\* and with 130 when a keyboard interrupt is raised in the body.
C19_ExitStatusPattern ==
  /\ (cliPc = "exited" /\ ~IsNone(args)) =>
       \/ /\ exitStatus = Some(0)
          /\ stderr = None
          /\ \A i \in DOMAIN DerivativesArg : DerivativesArg[i] \notin Malformed
       \/ /\ exitStatus = Some(1)
          /\ ~IsNone(stderr)
          /\ Val(stderr)[1] = "Error: "
          /\ \E i \in DOMAIN DerivativesArg : DerivativesArg[i] \in Malformed
       \/ /\ exitStatus = Some(130)
          /\ stderr = Some(<<"Interrupted by user">>)
  /\ (reportPc = "exited" /\ ~IsNone(reportArgs)) =>
       \/ /\ reportExit = Some(0)
          /\ reportStderr = None
          /\ ~IsNone(report_html)
          /\ outFile = report_html
       \/ /\ reportExit = Some(1)
          /\ ~IsNone(reportStderr)
          /\ Val(reportStderr)[1] = "Error: "
       \/ /\ reportExit = Some(130)
          /\ reportStderr = Some(<<"Interrupted by user">>)

C19_Witness ==
  /\ reportPc = "exited"
  /\ reportExit = Some(130)
  /\ ~IsNone(report_html)

\* C20: the output file and its parent directory are created or changed
\* only after generate_html_report returned a complete document; when the
\* rendering raises, neither is created or changed and the exit status is 1.
C20_NoOutputBeforeRender ==
  [][/\ (parentDir' # parentDir \/ outFile' # outFile) =>
          /\ reportPc \in {"rendered", "dir"}
          /\ ~IsNone(report_html)
          /\ Val(report_html)[Len(Val(report_html))] = "</script> </body> </html>"
     /\ (reportPc = "parsed" /\ reportPc' = "exited"
           /\ reportStderr' = Some(<<"Error: ", "render">>)) =>
          /\ reportExit' = Some(1)
          /\ IsNone(report_html')
          /\ parentDir' = parentDir
          /\ outFile' = outFile]_vars

C20_Witness ==
  /\ reportPc = "exited"
  /\ reportStderr = Some(<<"Error: ", "render">>)
  /\ reportExit = Some(1)
  /\ parentDir
  /\ ~IsNone(outFile)
  /\ Val(outFile) # <<>>

\* C22: the footer always holds the static copyright line with the current
\* year and one tag chip per supplied tag, in the caller's order; without
\* tags, or with an empty tag list, it has no tag block.
C22_FooterChips ==
  Returned =>
    LET f == FooterOf(html)
        n == Len(f)
        tg == IF IsNone(tags) THEN <<>> ELSE Val(tags)
    IN /\ n >= 4
       /\ f[1] = "<footer>"
       /\ f[n - 2] = "<p>&copy; "
       /\ f[n - 1] = Clock[now].year
       /\ f[n] = " Analysis Report. All rights reserved.</p> <div class=\"footer-links\"> <a href=\"#\">Documentation</a> <a href=\"#\">Report Issue</a> <a href=\"#\">Contact Support</a> </div> </footer>"
       /\ tg = <<>> => n = 4
       /\ tg # <<>> =>
            /\ n = 6 + 3 * Len(tg)
            /\ f[2] = "<p> <strong>Tags:</strong><br>"
            /\ f[3 * Len(tg) + 3] = "</p>"
            /\ \A i \in DOMAIN tg :
                 /\ f[3 * i] = "<span class=\"tag\">"
                 /\ f[3 * i + 1] = tg[i]
                 /\ f[3 * i + 2] = "</span>"

C22_Witness ==
  /\ Returned
  /\ now = 2
  /\ tags = Some(<<"fmri", "qc", "fmri">>)

\* C26: a call made without an author shows no Author item carrying the
\* author of an earlier call.  (The caller of the model puts "Ann" nowhere
\* but in the author argument, so an Author item "Ann" in a call without
\* author can only be left over from an earlier call.)
C26_NoAuthorFromEarlierCall ==
  (Returned /\ ~TruthyStr(author)) =>
    \A i \in DOMAIN AuthorItems(html) :
      AuthorItems(html)[i].text \notin (Authors \ {""})

\* C27: every navigation link "#x" has a section fragment with id "x" in
\* the main content.
C27_LinksHaveAnchors ==
  Returned =>
    LET hrefs == NavHrefs(html)
        ids == SectionIdsOf(html)
    IN \A i \in DOMAIN hrefs : \E j \in DOMAIN ids : ids[j] = hrefs[i]

\* A step that is a call of generate_html_report.
AnyCallStep ==
  \/ pc = "idle" /\ pc' = "returned"
  \/ pc = "returned" /\ pc' \in {"again", "plain"}

\* C28: a call leaves the caller's override mapping as it was, and a call
\* without overrides made after a call with overrides renders every CSS key
\* with the built-in value of its theme.
C28_NoPaletteLeak ==
  [][AnyCallStep =>
       /\ custom_colors' = custom_colors
       /\ pc' = "plain" =>
            /\ ~raised'
            /\ \A i \in DOMAIN CssRefs :
                 CssValueAt(html', i) =
                   (IF theme' \in {"light", "dark", "minimal"}
                    THEN schemes[theme'] ELSE schemes["light"])[CssRefs[i]]]_vars

C28_Witness ==
  /\ pc = "plain"
  /\ theme = "dark"
  /\ DOMAIN Val(custom_colors) = {"accent_color", "logo_url"}

\* C30: the header shows one metadata item per key of the author-merged
\* metadata mapping, in mapping order, with the key and its value, whatever
\* the value; the metadata block is absent only when the mapping is empty.
C30_EveryEntryDisplayed ==
  Returned =>
    LET given == IF IsNone(metadata) THEN <<>> ELSE Val(metadata)
        merged == IF TruthyStr(author)
                  THEN DictSet(given, "Author", StrVal(Val(author))) ELSE given
    IN /\ HeaderItems(html) =
            [i \in DOMAIN merged |->
               [key |-> merged[i].key, text |-> merged[i].value.text]]
       /\ Count(html, "<div class=\"metadata\">") = (IF merged = <<>> THEN 0 ELSE 1)

\* C21: every text the caller supplies is interpolated verbatim, without
\* HTML escaping, also when it holds <, >, &, quotes or braces: the title in
\* <title> and <h1>, the description in its meta tag and the subtitle, the
\* author in its meta tag and its header item, each metadata key and value in
\* its header item and each tag in its footer chip; and rendering such a text
\* does not fail.
C21_TextVerbatim ==
  pc = "returned" =>
    /\ ~raised
    /\ LET hd == HeaderOf(html)
           ft == FooterOf(html)
           merged == IF ~IsNone(metadata) THEN Val(metadata)
                     ELSE IF TruthyStr(author)
                          THEN <<[key |-> "Author", value |-> StrVal(Val(author))]>>
                          ELSE <<>>
       IN /\ html[2] = (IF TruthyStr(author) THEN Val(author) ELSE "Analysis Pipeline")
          /\ html[4] = (IF TruthyStr(description) THEN Val(description)
                        ELSE "Generated analysis report")
          /\ html[5] = "\"> <title>"
          /\ html[6] = title
          /\ hd[1] = "<header> <h1>"
          /\ hd[2] = title
          /\ TruthyStr(description) =>
               hd[4] = "<p class=\"subtitle\">" /\ hd[5] = Val(description)
          /\ HeaderItems(html) =
               [i \in DOMAIN merged |->
                  [key |-> merged[i].key, text |-> merged[i].value.text]]
          /\ TruthyStr(author) =>
               \E i \in DOMAIN HeaderItems(html) :
                  HeaderItems(html)[i] = [key |-> "Author", text |-> Val(author)]
          /\ After(ft, "<span class=\"tag\">") =
               (IF IsNone(tags) THEN <<>> ELSE Val(tags))

C21_Witness ==
  /\ Returned
  /\ title = "<b>Q&A</b>"
  /\ description = Some("{title} {0} 100%")
  /\ author = Some("say \"hi\" & 'bye'")
  /\ tags = Some(<<"<b>Q&A</b>", "say \"hi\" & 'bye'">>)
  /\ ~IsNone(metadata)
  /\ Val(metadata)[1] = [key |-> "{title} {0} 100%", value |-> StrVal("<b>Q&A</b>")]
  /\ Count(html, "<b>Q&A</b>") = 4

\* The tags given on the command line: the argument words that follow each
\* --tags, in order.
RECURSIVE TagsGiven(_, _)
TagsGiven(argv_, i) ==
  IF i > Len(argv_) THEN <<>>
  ELSE IF argv_[i] = "--tags"
       THEN SubSeq(argv_, i + 1, i + LeadingArgs(argv_, i + 1))
              \o TagsGiven(argv_, i + 1)
       ELSE TagsGiven(argv_, i + 1)

\* C23: --tags of the report command line can be given several times: every
\* tag of every occurrence reaches the footer of the written report, in
\* command-line order.
C23_EveryTagReachesFooter ==
  (reportPc = "exited" /\ reportExit = Some(0) /\ ~IsNone(reportArgs)
     /\ TagsGiven(reportArgv, 1) # <<>>) =>
    After(FooterOf(Val(outFile)), "<span class=\"tag\">") = TagsGiven(reportArgv, 1)

\* C24: the pipeline accepts --strategy custom (the participant branch runs
\* and the process exits with 0) only if --config is given as well.
C24_CustomNeedsConfig ==
  (cliPc = "exited" /\ ~IsNone(args) /\ exitStatus = Some(0)
     /\ Val(args).strategy = Some("custom")) =>
    /\ ~IsNone(Val(args).config)
    /\ \E i \in DOMAIN argv : argv[i] \in {"-c", "--config"}

\* C25: the report command line replaces an output file that already exists
\* only when --overwrite is supplied.
C25_ReplaceOnlyWithOverwrite ==
  [][(/\ ~IsNone(outFile)
      /\ \/ outFile' # outFile
         \/ reportPc = "dir" /\ reportExit' = Some(0)) =>
       /\ ~IsNone(reportArgs)
       /\ Val(reportArgs).overwrite
       /\ \E i \in DOMAIN reportArgv : reportArgv[i] = "--overwrite"]_vars

\* A value the parser rejects at index i, and a word that ends the run in
\* the parser with the help or version text.
RejectedValues ==
  { <<"--strategy", "bogus">>, <<"--run", "x">>, <<"--threshold", "abc">>,
    <<"--theme", "neon">>, <<"--dpi", "x">> }
BadAt(argv_, i) == i < Len(argv_) /\ <<argv_[i], argv_[i + 1]>> \in RejectedValues
StopAt(argv_, i) == argv_[i] \in {"-h", "--help", "--version"}

\* The first index of a command line at which the parser ends the run, 0
\* when there is none.
Decider(argv_) ==
  LET S == {i \in DOMAIN argv_ : BadAt(argv_, i) \/ StopAt(argv_, i)}
  IN IF S = {} THEN 0 ELSE CHOOSE i \in S : \A j \in S : i <= j

\* A command line the parser rejects: no positional words, or a rejected
\* value before any help or version option.
Rejects(argv_) ==
  \/ argv_ = <<>>
  \/ Decider(argv_) # 0 /\ BadAt(argv_, Decider(argv_))

\* A command line that asks for the help or version text first.
Stops(argv_) == Decider(argv_) # 0 /\ StopAt(argv_, Decider(argv_))

\* C29 as stated: every termination of either main has an exit status in
\* {0, 1, 130}, whatever the command line, including the ones the parser
\* rejects and --help / --version.
C29_ExitStatusSet ==
  /\ ~IsNone(exitStatus) => Val(exitStatus) \in {0, 1, 130}
  /\ ~IsNone(reportExit) => Val(reportExit) \in {0, 1, 130}

\* C29 amended: every termination of either main has an exit status in
\* {0, 1, 2, 130}; the status is 2 exactly when the parser rejects the
\* command line (no positional words, a value outside the choices, a
\* non-numeric value of an int or float option), it is 0 after --help or
\* --version, and it is in {0, 1, 130} once the arguments are parsed.
C29_ExitStatusSetWithUsage ==
  /\ ~IsNone(exitStatus) => Val(exitStatus) \in {0, 1, 2, 130}
  /\ ~IsNone(reportExit) => Val(reportExit) \in {0, 1, 2, 130}
  /\ cliPc = "exited" =>
       /\ exitStatus = Some(2) <=> Rejects(argv)
       /\ Stops(argv) => exitStatus = Some(0)
       /\ ~IsNone(args) <=> ~(Rejects(argv) \/ Stops(argv))
  /\ reportPc = "exited" =>
       /\ reportExit = Some(2) <=> Rejects(reportArgv)
       /\ Stops(reportArgv) => reportExit = Some(0)
       /\ ~IsNone(reportArgs) <=> ~(Rejects(reportArgv) \/ Stops(reportArgv))

C29_Witness ==
  /\ cliPc = "exited"
  /\ exitStatus = Some(2)
  /\ argv = <<"bids", "out", "participant", "--config", "cfg.yaml", "--threshold", "abc">>

====
